---- MODULE Spec2Model ----
(***************************************************************************)
(* Conversation/session engine of the expense-tracker bot: the session     *)
(* store (Bot.states under Bot.stateMutex), the eviction sweeper, the      *)
(* admission gate, the dialog state machine (handleMessage/handleState)    *)
(* and the callback router (handleCallbackQuery), with the storage and     *)
(* messaging collaborators as an environment.                              *)
(*                                                                         *)
(* Pointers are sequences of length 0 (nil) or 1 (the object pointed to).  *)
(* Money and distances are integers in hundredths (96.72 is 9672).         *)
(* Time is in minutes.                                                     *)
(***************************************************************************)
EXTENDS Integers, Sequences, FiniteSets, TLC

VARIABLES
    states,      \* Bot.states: chat/user id -> pointer to UserState
    dbUsers,     \* storage: users table, telegram id -> row id (0: no row)
    dbExpenses,  \* storage: expenses table, id -> pointer to row
    metrics,     \* Bot.metrics
    tokens,      \* Bot.rateLimiter: tokens left in the bucket
    now,         \* the clock, minutes
    out,         \* what the last handled event sent and wrote
    events,      \* number of events handled so far
    script,      \* the inputs a scripted conversation has sent so far
    admitted,    \* history: messages the gate admitted since the last refill interval
    \* the bot as its goroutines see it, statement by statement
    heap,        \* the UserState objects allocated so far; an address is an index
    stateMap,    \* Bot.states: chat/user id -> address (0: no entry)
    stateMutex,  \* Bot.stateMutex: the writer ("" if none) and the readers
    pc,          \* where each goroutine is
    local,       \* each handler's event, its state pointer and the Step it read
    sweep,       \* the sweeper's now and the keys its range has yet to visit
    crashed,     \* the runtime has stopped the process
    batch,       \* history: the events begun since no handler was in flight
    base         \* history: the session and the storage when the batch began

seqVars == <<states, dbUsers, dbExpenses, metrics, tokens, now, out, events, script, admitted>>
concVars == <<heap, stateMap, stateMutex, pc, local, sweep, crashed, batch, base>>
vars == <<seqVars, concVars>>

-----------------------------------------------------------------------------
(* Bounds of the model *)

MaxEvents == 3
MaxTime == 35
MaxExpenseID == 3
MaxGateEvents == 12

Users == {1, 2}
Handlers == {"h1", "h2"}
Sweeper == "sw"
\* the goroutine of App.Run, which waits for the signal and shuts down
Main == "main"
Threads == Handlers \cup {Sweeper, Main}
GroupChats == {-1}
Chats == Users \cup GroupChats
TickSteps == {35}

(* Program constants *)

StateTimeout == 30
Burst == 10
MaxSelection == 10
ListLimit == 100

NilPtr == <<>>

-----------------------------------------------------------------------------
(* models.Expense, models.UserState *)

NullString == [String |-> "", Valid |-> FALSE]

EmptyExpense ==
    [ID |-> 0, UserID |-> 0, CategoryName |-> "", VehicleType |-> NullString,
     Odometer |-> 0, PetrolPrice |-> 0, TotalPrice |-> 0, Notes |-> "",
     Deleted |-> FALSE]

NewUserState(t) ==
    [Step |-> "StepStart", TempExpense |-> NilPtr, DeleteExpense |-> NilPtr,
     ExpenseSelection |-> <<>>, LastActivity |-> t]

UpdateActivity(s, t) == [s EXCEPT !.LastActivity = t]

-----------------------------------------------------------------------------
(* Inputs: message texts and callback payloads.  A payload is the sequence *)
(* of its "_"-separated parts: "edit_field_notes" is <<"edit","field",     *)
(* "notes">>.                                                              *)

NumericTexts == {"50000", "96.72", "1000"}
PlainTexts == {"abc", "fuel"}
CommandTexts == {"/skip", "/cancel", "/edit", "/delete", "/search", "/add", "/list"}

\* The labels of the main menu.  A label is written as the code points of
\* its symbol, in angle brackets, and its words: a text equals a label when
\* the code points are the same.
\* GetMainMenuKeyboard: the labels the buttons send
MainMenuLabel ==
    [add       |-> "<1F4DD> Add Expense",
     list      |-> "<1F4CB> List Expenses",
     edit      |-> "<270F><FE0F> Edit Expense",
     delete    |-> "<1F5D1><FE0F> Delete Expense",
     report    |-> "<1F4CA> Reports",
     dashboard |-> "<1F4C8> Dashboard"]
\* handleState: the string literals of its switch on message.Text
ButtonCase ==
    [add       |-> "<F8FF><FC><EC><F9> Add Expense",
     list      |-> "<F8FF><FC><EC><E3> List Expenses",
     edit      |-> "<201A><FA><E8><D4><220F><E8> Edit Expense",
     delete    |-> "<F8FF><FC><F3><EB><D4><220F><E8> Delete Expense",
     report    |-> "<F8FF><FC><EC><E4> Reports",
     dashboard |-> "<F8FF><FC><EC><E0> Dashboard"]

\* strconv.ParseFloat: the value (hundredths) or an error
ParseFloat(text) ==
    CASE text = "50000" -> [err |-> FALSE, value |-> 5000000]
      [] text = "96.72" -> [err |-> FALSE, value |-> 9672]
      [] text = "1000"  -> [err |-> FALSE, value |-> 100000]
      [] OTHER          -> [err |-> TRUE, value |-> 0]

\* strconv.ParseInt(s, 10, 64)
ParseInt(part) ==
    CASE part = "1" -> [err |-> FALSE, value |-> 1]
      [] part = "2" -> [err |-> FALSE, value |-> 2]
      [] part = "3" -> [err |-> FALSE, value |-> 3]
      [] OTHER      -> [err |-> TRUE, value |-> 0]

\* tgbotapi Message.IsCommand / Message.Command
IsCommand(text) == text \in CommandTexts
Command(text) ==
    CASE text = "/skip"   -> "skip"
      [] text = "/cancel" -> "cancel"
      [] text = "/edit"   -> "edit"
      [] text = "/delete" -> "delete"
      [] text = "/search" -> "search"
      [] text = "/add"    -> "add"
      [] text = "/list"   -> "list"
      [] OTHER            -> ""

\* strings.HasPrefix(data, p) for a prefix p that ends in "_"
HasPrefix(data, p) == Len(data) > Len(p) /\ SubSeq(data, 1, Len(p)) = p
\* strings.TrimPrefix(data, p), when what is left is one part
TrimPrefix(data, p) == data[Len(p) + 1]

-----------------------------------------------------------------------------
(* The environment of one event: whether the messaging collaborator        *)
(* accepts the reply, which storage calls fail, whether the storage        *)
(* reports a missing row as an error (database.Client, errNotFound) or as  *)
(* a nil row (the interface the services are written against), and what    *)
(* the search collaborator returns.                                        *)

EnvOK == [sendOK |-> TRUE, fault |-> "none", nilNotFound |-> FALSE, search |-> "some"]
EnvSendFails == [EnvOK EXCEPT !.sendOK = FALSE]
EnvNilNotFound == [EnvOK EXCEPT !.nilNotFound = TRUE]
EnvLookupFails == [EnvOK EXCEPT !.fault = "lookup"]
EnvWriteFails == [EnvOK EXCEPT !.fault = "expense_write"]
EnvNoMatches == [EnvOK EXCEPT !.search = "none"]
EnvSearchFails == [EnvOK EXCEPT !.search = "err"]

-----------------------------------------------------------------------------
(* The world a handler works on: W.st (Bot.states), W.users, W.exps        *)
(* (storage), W.m (metrics), W.tok (rate limiter), W.out (effects of the   *)
(* event being handled).                                                   *)

NoOut == [actor |-> 0, chat |-> 0, reply |-> "", route |-> "",
          dbop |-> "none", dbid |-> 0, dbowner |-> 0,
          dbrow |-> EmptyExpense]

\* BotAPI.Send of a reply of the given kind to a chat
Send(W, chat, kind) == [W EXCEPT !.out.chat = chat, !.out.reply = kind]
sendMessage(W, chat, kind) == Send(W, chat, kind)

\* an error reply that also drops the session of the chat
sendError_dropsSession(W, chat) == Send([W EXCEPT !.st[chat] = NilPtr], chat, "error")

\* Bot.sendError
sendError(W, chat) == Send(W, chat, "error")

\* a nil pointer dereference: the handler's goroutine panics
Panic(W) == [W EXCEPT !.out.reply = "PANIC"]

-----------------------------------------------------------------------------
(* Storage collaborator (database.Storage)                                 *)

\* categories table as seeded: name -> group ("" : no such category)
CategoryGroup(name) ==
    CASE name = "Petrol"  -> "Vehicle"
      [] name = "Service" -> "Vehicle"
      [] name = "Grocery" -> "Daily Living"
      [] OTHER            -> ""

\* the id the users table gives the row of a telegram id
UserRowID(tid) == tid + 10

\* Client.GetUserByTelegramID without its WHERE clause: the first row
DbGetUserByTelegramID_first(W, tid, env) ==
    [err |-> FALSE, user |-> <<[ID |-> UserRowID(2), TelegramID |-> 2]>>]

\* Client.GetUserByTelegramID: SELECT * FROM users WHERE telegram_id = $1
DbGetUserByTelegramID(W, tid, env) ==
    IF env.fault = "lookup" THEN [err |-> TRUE, user |-> NilPtr]
    ELSE IF tid \in DOMAIN W.users /\ W.users[tid] # 0
         THEN [err |-> FALSE, user |-> <<[ID |-> W.users[tid], TelegramID |-> tid]>>]
         ELSE [err |-> ~env.nilNotFound, user |-> NilPtr]

\* Client.GetCategoryByName
DbGetCategoryByName(name, env) ==
    IF env.fault = "lookup" THEN [err |-> TRUE, category |-> NilPtr]
    ELSE IF CategoryGroup(name) # ""
         THEN [err |-> FALSE, category |-> <<[Name |-> name, Group |-> CategoryGroup(name)]>>]
         ELSE [err |-> ~env.nilNotFound, category |-> NilPtr]

\* Client.GetExpenseByID: ... WHERE e.id = $1 AND e.deleted_at IS NULL
DbGetExpenseByID(W, id, env) ==
    IF env.fault = "lookup" THEN [err |-> TRUE, expense |-> NilPtr]
    ELSE IF id \in DOMAIN W.exps /\ W.exps[id] # NilPtr /\ ~W.exps[id][1].Deleted
         THEN [err |-> FALSE, expense |-> W.exps[id]]
         ELSE [err |-> ~env.nilNotFound, expense |-> NilPtr]

\* the next value of the expenses table's serial id
NextExpenseID(exps) == Cardinality({i \in DOMAIN exps : exps[i] # NilPtr}) + 1

\* Client.GetExpensesByUserID: the user's live rows, newest first
RECURSIVE RowsFrom(_, _, _)
RowsFrom(exps, row, i) ==
    IF i = 0 THEN <<>>
    ELSE IF exps[i] # NilPtr /\ exps[i][1].UserID = row /\ ~exps[i][1].Deleted
         THEN <<exps[i][1]>> \o RowsFrom(exps, row, i - 1)
         ELSE RowsFrom(exps, row, i - 1)
DbGetExpensesByUserID(W, row) == RowsFrom(W.exps, row, Len(W.exps))

\* Client.GetExpensesByTelegramID
DbGetExpensesByTelegramID(W, tid, env) ==
    LET u == DbGetUserByTelegramID(W, tid, env)
    IN  IF u.err \/ u.user = NilPtr THEN [err |-> TRUE, expenses |-> <<>>]
        ELSE [err |-> FALSE, expenses |-> DbGetExpensesByUserID(W, u.user[1].ID)]

\* Client.CreateUser: INSERT ... ON CONFLICT (telegram_id) DO UPDATE
DbCreateUser(W, tid, env) ==
    IF env.fault = "user_write" THEN [err |-> TRUE, W |-> W]
    ELSE [err |-> FALSE, W |-> [W EXCEPT !.users[tid] = UserRowID(tid)]]

\* Client.CreateExpense: INSERT INTO expenses ... RETURNING id
DbCreateExpense(W, rec, env) ==
    LET id == NextExpenseID(W.exps)
        row == [rec EXCEPT !.ID = id,
                           !.VehicleType = IF rec.VehicleType.String = ""
                                           THEN NullString ELSE rec.VehicleType]
    IN  IF env.fault = "expense_write" \/ id > MaxExpenseID THEN [err |-> TRUE, W |-> W]
        ELSE [err |-> FALSE,
              W |-> [W EXCEPT !.exps[id] = <<row>>,
                              !.out.dbop = "create", !.out.dbid = id,
                              !.out.dbowner = rec.UserID, !.out.dbrow = row]]

\* Client.UpdateExpense: UPDATE expenses SET ... WHERE id = $8 AND user_id = $9
\*                       AND deleted_at IS NULL RETURNING updated_at
DbUpdateExpense(W, rec, env) ==
    LET id == rec.ID
        hit == id \in DOMAIN W.exps /\ W.exps[id] # NilPtr
               /\ W.exps[id][1].UserID = rec.UserID /\ ~W.exps[id][1].Deleted
        row == [rec EXCEPT !.VehicleType = IF rec.VehicleType.String = ""
                                           THEN NullString ELSE rec.VehicleType]
    IN  IF env.fault = "expense_write" \/ ~hit THEN [err |-> TRUE, W |-> W]
        ELSE [err |-> FALSE,
              W |-> [W EXCEPT !.exps[id] = <<row>>,
                              !.out.dbop = "update", !.out.dbid = id,
                              !.out.dbowner = W.exps[id][1].UserID, !.out.dbrow = row]]

\* Client.DeleteExpense: UPDATE expenses SET deleted_at = now() WHERE id = $1
\*                       AND user_id = $2 AND deleted_at IS NULL
DbDeleteExpense(W, id, row, env) ==
    LET hit == id \in DOMAIN W.exps /\ W.exps[id] # NilPtr
               /\ W.exps[id][1].UserID = row /\ ~W.exps[id][1].Deleted
    IN  IF env.fault = "expense_write" \/ ~hit THEN [err |-> TRUE, W |-> W]
        ELSE [err |-> FALSE,
              W |-> [W EXCEPT !.exps[id][1].Deleted = TRUE,
                              !.out.dbop = "delete", !.out.dbid = id,
                              !.out.dbowner = W.exps[id][1].UserID,
                              !.out.dbrow = W.exps[id][1]]]

-----------------------------------------------------------------------------
(* validation.Validator (amounts in hundredths)                            *)

\* 999999999.99, as whole units and hundredths
MaxAmountUnits == 999999999
MaxAmountCents == 99
MaxOdometer == 99999990

ValidateTelegramID(tid) == tid > 0
ValidateExpenseID(id) == id > 0
ValidateAmount(a) ==
    /\ a > 0
    /\ \/ a \div 100 < MaxAmountUnits
       \/ (a \div 100 = MaxAmountUnits /\ a % 100 <= MaxAmountCents)
ValidateOdometer(o) == o >= 0 /\ o <= MaxOdometer
ValidateCategoryName(name) == name # ""
ValidateVehicleType(v) == v \in {"CAR", "BIKE"}
ValidatePagination(limit, offset) == limit > 0 /\ limit <= ListLimit /\ offset >= 0

-----------------------------------------------------------------------------
(* Services                                                                *)

\* UserService.GetOrCreateUser
GetOrCreateUser(W, tid, env) ==
    IF ~ValidateTelegramID(tid) THEN [err |-> TRUE, W |-> W]
    ELSE LET u == DbGetUserByTelegramID(W, tid, env)
         IN  IF u.err THEN [err |-> TRUE, W |-> W]
             ELSE IF u.user # NilPtr THEN [err |-> FALSE, W |-> W]
             ELSE DbCreateUser(W, tid, env)

\* UserService.GetUserByTelegramID
GetUserByTelegramID(W, tid, env) ==
    IF ~ValidateTelegramID(tid) THEN [err |-> TRUE, user |-> NilPtr]
    ELSE LET u == DbGetUserByTelegramID(W, tid, env)
         IN  IF u.err \/ u.user = NilPtr THEN [err |-> TRUE, user |-> NilPtr]
             ELSE u

\* CategoryService.GetCategoryByName
GetCategoryByName(name, env) ==
    IF ~ValidateCategoryName(name) THEN [err |-> TRUE, category |-> NilPtr]
    ELSE LET c == DbGetCategoryByName(name, env)
         IN  IF c.err \/ c.category = NilPtr THEN [err |-> TRUE, category |-> NilPtr]
             ELSE c

\* CategoryService.GetCategoriesByGroup: whether it fails
GetCategoriesByGroupErr(groupName, env) == groupName = "" \/ env.fault = "lookup"

\* ExpenseService.CreateExpense
CreateExpense(W, expense, tid, env) ==
    IF \/ ~ValidateTelegramID(tid)
       \/ ~ValidateAmount(expense.TotalPrice)
       \/ (expense.Odometer > 0 /\ ~ValidateOdometer(expense.Odometer))
       \/ (expense.PetrolPrice > 0 /\ ~ValidateAmount(expense.PetrolPrice))
       \/ ~ValidateCategoryName(expense.CategoryName)
    THEN [err |-> TRUE, W |-> W]
    ELSE LET u == DbGetUserByTelegramID(W, tid, env)
             c == DbGetCategoryByName(expense.CategoryName, env)
         IN  IF u.err \/ u.user = NilPtr \/ c.err \/ c.category = NilPtr
             THEN [err |-> TRUE, W |-> W]
             ELSE LET useVehicle == c.category[1].Group = "Vehicle" /\ expense.VehicleType.Valid
                  IN  IF useVehicle /\ ~ValidateVehicleType(expense.VehicleType.String)
                      THEN [err |-> TRUE, W |-> W]
                      ELSE DbCreateExpense(W,
                              [EmptyExpense EXCEPT
                                 !.UserID = u.user[1].ID,
                                 !.CategoryName = c.category[1].Name,
                                 !.VehicleType = IF useVehicle THEN expense.VehicleType
                                                 ELSE NullString,
                                 !.Odometer = expense.Odometer,
                                 !.PetrolPrice = expense.PetrolPrice,
                                 !.TotalPrice = expense.TotalPrice,
                                 !.Notes = expense.Notes],
                              env)

\* ExpenseService.GetExpensesByTelegramID
GetExpensesByTelegramID(W, tid, limit, offset, env) ==
    IF ~ValidateTelegramID(tid) \/ ~ValidatePagination(limit, offset)
    THEN [err |-> TRUE, expenses |-> <<>>]
    ELSE LET r == DbGetExpensesByTelegramID(W, tid, env)
             n == Len(r.expenses)
             end == IF offset + limit > n THEN n ELSE offset + limit
         IN  IF r.err THEN r
             ELSE IF offset >= n THEN [err |-> FALSE, expenses |-> <<>>]
             ELSE [err |-> FALSE, expenses |-> SubSeq(r.expenses, offset + 1, end)]

\* ExpenseService.GetExpenseByID
GetExpenseByID(W, id, env) ==
    IF ~ValidateExpenseID(id) THEN [err |-> TRUE, expense |-> NilPtr]
    ELSE LET e == DbGetExpenseByID(W, id, env)
         IN  IF e.err \/ e.expense = NilPtr THEN [err |-> TRUE, expense |-> NilPtr]
             ELSE e

\* ExpenseService.UpdateExpense
UpdateExpense(W, expense, tid, env) ==
    IF \/ ~ValidateTelegramID(tid)
       \/ ~ValidateExpenseID(expense.ID)
       \/ ~ValidateAmount(expense.TotalPrice)
       \/ (expense.Odometer > 0 /\ ~ValidateOdometer(expense.Odometer))
       \/ (expense.PetrolPrice > 0 /\ ~ValidateAmount(expense.PetrolPrice))
    THEN [err |-> TRUE, W |-> W]
    ELSE LET u == DbGetUserByTelegramID(W, tid, env)
             e == DbGetExpenseByID(W, expense.ID, env)
         IN  IF u.err \/ u.user = NilPtr \/ e.err \/ e.expense = NilPtr
             THEN [err |-> TRUE, W |-> W]
             ELSE IF e.expense[1].UserID # u.user[1].ID THEN [err |-> TRUE, W |-> W]
             ELSE DbUpdateExpense(W, expense, env)

\* ExpenseService.DeleteExpense
DeleteExpense(W, id, tid, env) ==
    IF ~ValidateTelegramID(tid) \/ ~ValidateExpenseID(id) THEN [err |-> TRUE, W |-> W]
    ELSE LET u == DbGetUserByTelegramID(W, tid, env)
             e == DbGetExpenseByID(W, id, env)
         IN  IF u.err \/ u.user = NilPtr \/ e.err \/ e.expense = NilPtr
             THEN [err |-> TRUE, W |-> W]
             ELSE IF e.expense[1].UserID # u.user[1].ID THEN [err |-> TRUE, W |-> W]
             ELSE DbDeleteExpense(W, id, u.user[1].ID, env)

-----------------------------------------------------------------------------
(* Session store, as one handler at a time sees it                         *)

getState(W, userID) == W.st[userID]

setState(W, userID, state, t) ==
    [W EXCEPT !.st[userID] = <<[state EXCEPT !.LastActivity = t]>>]

\* a delete that leaves the entry in the map
deleteState_keep(W, id) == W

\* a delete that empties the map
deleteState_all(W, id) == [W EXCEPT !.st = [c \in DOMAIN W.st |-> NilPtr]]

\* delete(b.states, id)
deleteState(W, id) == [W EXCEPT !.st[id] = NilPtr]

\* a counter that goes up by two
incrementMetric_twice(W, metric) == [W EXCEPT !.m[metric] = @ + 2]

incrementMetric(W, metric) == [W EXCEPT !.m[metric] = @ + 1]

-----------------------------------------------------------------------------
(* helpers.go                                                              *)

\* prepareExpenseSelection without the limit
prepareExpenseSelection_all(W, userID, maxExpenses, env, t) ==
    LET r == GetExpensesByTelegramID(W, userID, ListLimit, 0, env)
        W1 == IF getState(W, userID) = NilPtr
              THEN setState(W, userID, NewUserState(t), t) ELSE W
    IN  IF r.err THEN [err |-> TRUE, expenses |-> <<>>, W |-> W]
        ELSE IF Len(r.expenses) = 0 THEN [err |-> FALSE, expenses |-> <<>>, W |-> W]
        ELSE [err |-> FALSE, expenses |-> r.expenses,
              W |-> [W1 EXCEPT !.st[userID][1].ExpenseSelection = r.expenses]]

\* prepareExpenseSelection
prepareExpenseSelection(W, userID, maxExpenses, env, t) ==
    LET r == GetExpensesByTelegramID(W, userID, ListLimit, 0, env)
        toShow == IF Len(r.expenses) > maxExpenses
                  THEN SubSeq(r.expenses, 1, maxExpenses) ELSE r.expenses
        W1 == IF getState(W, userID) = NilPtr
              THEN setState(W, userID, NewUserState(t), t) ELSE W
    IN  IF r.err THEN [err |-> TRUE, expenses |-> <<>>, W |-> W]
        ELSE IF Len(r.expenses) = 0 THEN [err |-> FALSE, expenses |-> <<>>, W |-> W]
        ELSE [err |-> FALSE, expenses |-> toShow,
              W |-> [W1 EXCEPT !.st[userID][1].ExpenseSelection = toShow]]

\* parseFloatOrReply: the error it returns is the error of sending the re-prompt
parseFloatOrReply(W, chatID, text, env) ==
    LET p == ParseFloat(text)
    IN  IF p.err
        THEN [value |-> 0, err |-> ~env.sendOK, W |-> sendMessage(W, chatID, "invalid_number")]
        ELSE [value |-> p.value, err |-> FALSE, W |-> W]

\* checkExpenseOwnership without the comparison of the owner
checkExpenseOwnership_anyone(W, userID, expense, env) ==
    IF expense = NilPtr THEN "expense_not_found" ELSE ""

\* checkExpenseOwnership: "" when the user owns the expense, else the denial
checkExpenseOwnership(W, userID, expense, env) ==
    LET u == GetUserByTelegramID(W, userID, env)
    IN  IF expense = NilPtr THEN "expense_not_found"
        ELSE IF u.err \/ u.user = NilPtr THEN "no_user_record"
        ELSE IF expense[1].UserID # u.user[1].ID THEN "own_only"
        ELSE ""

-----------------------------------------------------------------------------
(* handler.go: the command handlers                                        *)

handleAddCommand(W, chat) == Send(W, chat, "select_group")

handleListCommand(W, from, chat, env) ==
    LET r == GetExpensesByTelegramID(W, from, ListLimit, 0, env)
    IN  IF r.err THEN sendError(W, chat) ELSE sendMessage(W, chat, "expense_list")

handleEditCommand(W, from, chat, env, t) ==
    LET r == prepareExpenseSelection(W, from, MaxSelection, env, t)
    IN  IF r.err THEN sendError(W, chat)
        ELSE IF Len(r.expenses) = 0 THEN sendMessage(W, chat, "no_expenses_to_edit")
        ELSE Send(r.W, chat, "select_expense_to_edit")

handleDeleteCommand(W, from, chat, env, t) ==
    LET r == prepareExpenseSelection(W, from, MaxSelection, env, t)
    IN  IF r.err THEN sendError(W, chat)
        ELSE IF Len(r.expenses) = 0 THEN sendMessage(W, chat, "no_expenses_to_delete")
        ELSE Send(r.W, chat, "select_expense_to_delete")

handleReportCommand(W, from, chat, env) ==
    LET r == GetExpensesByTelegramID(W, from, ListLimit, 0, env)
    IN  IF r.err THEN sendError(incrementMetric(W, "errorCount"), chat)
        ELSE sendMessage(W, chat, "report")

handleDashboardCommand(W, from, chat, env) ==
    LET r == GetExpensesByTelegramID(W, from, MaxSelection, 0, env)
    IN  IF r.err THEN sendError(incrementMetric(W, "errorCount"), chat)
        ELSE sendMessage(W, chat, "dashboard")

handleSearchCommand(W, from, chat, env, t) ==
    LET r == GetExpensesByTelegramID(W, from, 1, 0, env)
        W1 == IF getState(W, from) = NilPtr
              THEN setState(W, from, NewUserState(t), t) ELSE W
    IN  IF r.err THEN sendError(W, chat)
        ELSE IF Len(r.expenses) = 0 THEN sendMessage(W, chat, "no_expenses_yet")
        ELSE sendMessage([W1 EXCEPT !.st[from][1].Step = "StepSearchExpense"],
                         chat, "search_instructions")

\* VectorService.SearchExpensesByQuery: "err", "none" or "some" matches
SearchExpensesByQuery(W, tid, env) ==
    LET u == DbGetUserByTelegramID(W, tid, env)
    IN  IF u.err \/ u.user = NilPtr THEN "err" ELSE env.search

\* handleSearchQuery (no text of the model is blank)
handleSearchQuery(W, from, chat, env) ==
    LET found == SearchExpensesByQuery(W, from, env)
    IN  IF found = "err" THEN sendError(W, chat)
        ELSE IF found = "none" THEN sendMessage(W, chat, "no_matches")
        ELSE sendMessage(IF getState(W, from) # NilPtr
                         THEN [W EXCEPT !.st[from][1].Step = "StepNone"] ELSE W,
                         chat, "search_results")

\* handleCommand
handleCommand(W, from, chat, text, env, t) ==
    LET c == Command(text)
    IN  CASE c = "add"    -> handleAddCommand(W, chat)
          [] c = "list"   -> handleListCommand(W, from, chat, env)
          [] c = "edit"   -> handleEditCommand(W, from, chat, env, t)
          [] c = "delete" -> handleDeleteCommand(W, from, chat, env, t)
          [] c = "search" -> handleSearchCommand(W, from, chat, env, t)
          [] c = "cancel" -> sendMessage(deleteState(W, chat), chat, "operation_cancelled")
          [] OTHER        -> sendMessage(W, chat, "unknown_command")

-----------------------------------------------------------------------------
(* handleState: the dialog state machine.  The state it works on is the    *)
(* one handleMessage read under the sender's id.                           *)

\* a numeric step that always goes on to the notes
numericStep_toNotes(W, from, chat, text, env, field, next, prompt) ==
    LET p == parseFloatOrReply(W, chat, text, env)
    IN  IF p.err THEN p.W
        ELSE Send([p.W EXCEPT !.st[from][1].TempExpense[1][field] = p.value,
                              !.st[from][1].Step = "StepNotes"],
                  chat, prompt)

\* StepOdometer, StepPetrolPrice, StepTotalPrice and their Edit twins: parse,
\* store the value in the draft's field, move on, prompt
numericStep(W, from, chat, text, env, field, next, prompt) ==
    LET p == parseFloatOrReply(W, chat, text, env)
    IN  IF p.err THEN p.W
        ELSE IF p.W.st[from][1].TempExpense = NilPtr THEN Panic(p.W)
        ELSE Send([p.W EXCEPT !.st[from][1].TempExpense[1][field] = p.value,
                              !.st[from][1].Step = next],
                  chat, prompt)

\* case models.StepNotes
notesStep(W, from, chat, text, env) ==
    LET W1 == [W EXCEPT !.st[from][1].TempExpense[1].Notes =
                            IF text # "/skip" THEN text ELSE @,
                        !.st[from][1].TempExpense[1].UserID = from]
        u == GetOrCreateUser(W1, from, env)
        draft == u.W.st[from][1].TempExpense[1]
        c == GetCategoryByName(draft.CategoryName, env)
        expense == [EmptyExpense EXCEPT !.CategoryName = draft.CategoryName,
                                        !.TotalPrice = draft.TotalPrice,
                                        !.Odometer = draft.Odometer,
                                        !.PetrolPrice = draft.PetrolPrice,
                                        !.Notes = draft.Notes]
        r == CreateExpense(u.W, expense, from, env)
    IN  IF W.st[from][1].TempExpense = NilPtr THEN Panic(W)
        ELSE IF u.err THEN sendError(u.W, chat)
        ELSE IF c.err THEN sendError(u.W, chat)
        ELSE IF c.category = NilPtr THEN sendMessage(u.W, chat, "category_not_found")
        ELSE IF r.err THEN sendError(r.W, chat)
        ELSE sendMessage(deleteState(r.W, chat), chat, "expense_added")

\* case models.StepEditNotes
editNotesStep(W, from, chat, text) ==
    IF W.st[from][1].TempExpense = NilPtr THEN Panic(W)
    ELSE Send([W EXCEPT !.st[from][1].TempExpense[1].Notes =
                            IF text # "/skip" THEN text ELSE "",
                        !.st[from][1].Step = "StepEditExpense"],
              chat, "updated_expense")

handleState(W, from, chat, text, env, t) ==
    LET step == W.st[from][1].Step
    IN  CASE text = ButtonCase.add       -> handleAddCommand(W, chat)
          [] text = ButtonCase.list      -> handleListCommand(W, from, chat, env)
          [] text = ButtonCase.edit      -> handleEditCommand(W, from, chat, env, t)
          [] text = ButtonCase.delete    -> handleDeleteCommand(W, from, chat, env, t)
          [] text = ButtonCase.report    -> handleReportCommand(W, from, chat, env)
          [] text = ButtonCase.dashboard -> handleDashboardCommand(W, from, chat, env)
          [] OTHER ->
             CASE step = "StepSearchExpense" -> handleSearchQuery(W, from, chat, env)
               [] step = "StepStart" -> Send(W, chat, "welcome")
               [] step = "StepOdometer" ->
                    numericStep(W, from, chat, text, env, "Odometer",
                                "StepPetrolPrice", "enter_petrol_price")
               [] step = "StepPetrolPrice" ->
                    numericStep(W, from, chat, text, env, "PetrolPrice",
                                "StepTotalPrice", "enter_total_price")
               [] step = "StepTotalPrice" ->
                    numericStep(W, from, chat, text, env, "TotalPrice",
                                "StepNotes", "enter_notes")
               [] step = "StepNotes" -> notesStep(W, from, chat, text, env)
               [] step = "StepEditOdometer" ->
                    numericStep(W, from, chat, text, env, "Odometer",
                                "StepEditExpense", "updated_expense")
               [] step = "StepEditPetrolPrice" ->
                    numericStep(W, from, chat, text, env, "PetrolPrice",
                                "StepEditExpense", "updated_expense")
               [] step = "StepEditTotalPrice" ->
                    numericStep(W, from, chat, text, env, "TotalPrice",
                                "StepEditExpense", "updated_expense")
               [] step = "StepEditNotes" -> editNotesStep(W, from, chat, text)
               [] OTHER -> sendMessage(W, chat, "use_commands_or_buttons")

\* a limiter that admits every call
Allow_always(W) == TRUE

\* rate.Limiter.Allow
Allow(W) == W.tok > 0

\* handleMessage without the special case for /skip at StepNotes
handleMessage_skipIsCommand(W, from, chat, text, env, t) ==
    LET W0 == incrementMetric(W, "messageCount")
        W1 == [W0 EXCEPT !.tok = @ - 1]
        W2 == IF getState(W1, from) = NilPtr
              THEN [setState(W1, from, NewUserState(t), t) EXCEPT !.m.activeUsers = @ + 1]
              ELSE W1
        W3 == [W2 EXCEPT !.st[from][1] = UpdateActivity(@, t)]
    IN  IF ~Allow(W0)
        THEN sendMessage(incrementMetric(W0, "errorCount"), chat, "too_many_requests")
        ELSE IF IsCommand(text)
             THEN handleCommand(incrementMetric(W3, "commandCount"), from, chat, text, env, t)
        ELSE handleState(W3, from, chat, text, env, t)

\* handleMessage
handleMessage(W, from, chat, text, env, t) ==
    LET W0 == incrementMetric(W, "messageCount")
        W1 == [W0 EXCEPT !.tok = @ - 1]
        W2 == IF getState(W1, from) = NilPtr
              THEN [setState(W1, from, NewUserState(t), t) EXCEPT !.m.activeUsers = @ + 1]
              ELSE W1
        W3 == [W2 EXCEPT !.st[from][1] = UpdateActivity(@, t)]
    IN  IF ~Allow(W0)
        THEN sendMessage(incrementMetric(W0, "errorCount"), chat, "too_many_requests")
        ELSE IF W3.st[from][1].Step = "StepNotes" /\ text = "/skip"
             THEN handleState(W3, from, chat, text, env, t)
        ELSE IF IsCommand(text)
             THEN handleCommand(incrementMetric(W3, "commandCount"), from, chat, text, env, t)
        ELSE handleState(W3, from, chat, text, env, t)

-----------------------------------------------------------------------------
(* handleCallbackQuery: the callback router.  The state it works on is the *)
(* one stored under the chat id of the callback's message.                 *)

\* case strings.HasPrefix(data, "category_")
categoryCallback(W, chat, data, env) ==
    LET c == GetCategoryByName(TrimPrefix(data, <<"category">>), env)
        W1 == [W EXCEPT !.st[chat][1].TempExpense[1].CategoryName = c.category[1].Name]
    IN  IF c.err \/ c.category = NilPtr THEN sendError(W, chat)
        ELSE IF c.category[1].Group = "Vehicle"
             THEN Send([W1 EXCEPT !.st[chat][1].Step = "StepVehicleType"],
                       chat, "select_vehicle_type")
        ELSE Send([W1 EXCEPT !.st[chat][1].Step = "StepTotalPrice"],
                  chat, "enter_total_price")

\* the vehicle_ case with the odometer asked of every category
vehicleCallback_odometer(W, chat, data) ==
    Send([W EXCEPT !.st[chat][1].TempExpense[1].VehicleType =
                      [String |-> TrimPrefix(data, <<"vehicle">>), Valid |-> TRUE],
                   !.st[chat][1].Step = "StepOdometer"], chat, "enter_odometer")

\* case strings.HasPrefix(data, "vehicle_")
vehicleCallback(W, chat, data) ==
    LET W1 == [W EXCEPT !.st[chat][1].TempExpense[1].VehicleType =
                            [String |-> TrimPrefix(data, <<"vehicle">>), Valid |-> TRUE]]
    IN  IF W1.st[chat][1].TempExpense[1].CategoryName = "Petrol"
        THEN Send([W1 EXCEPT !.st[chat][1].Step = "StepOdometer"], chat, "enter_odometer")
        ELSE Send([W1 EXCEPT !.st[chat][1].Step = "StepTotalPrice"], chat, "enter_total_price")

\* case strings.HasPrefix(data, "edit_field_")
editFieldCallback(W, chat, data) ==
    LET field == TrimPrefix(data, <<"edit", "field">>)
        to(step, prompt) == Send([W EXCEPT !.st[chat][1].Step = step], chat, prompt)
    IN  CASE field = "category" -> to("StepEditCategory", "select_new_category")
          [] field = "vehicle"  -> to("StepEditVehicleType", "select_new_vehicle_type")
          [] field = "odometer" -> to("StepEditOdometer", "enter_new_odometer")
          [] field = "petrol"   -> to("StepEditPetrolPrice", "enter_new_petrol_price")
          [] field = "total"    -> to("StepEditTotalPrice", "enter_new_total_price")
          [] field = "notes"    -> to("StepEditNotes", "enter_new_notes")
          [] OTHER              -> sendMessage(W, chat, "invalid_edit_field")

\* case strings.HasPrefix(data, "edit_vehicle_")
editVehicleCallback(W, chat, data) ==
    IF W.st[chat][1].TempExpense # NilPtr
    THEN Send([W EXCEPT !.st[chat][1].TempExpense[1].VehicleType =
                   [String |-> TrimPrefix(data, <<"edit", "vehicle">>), Valid |-> TRUE]],
              chat, "updated_expense")
    ELSE sendError(W, chat)

\* case data == "edit_save"
editSaveCallback(W, chat, env) ==
    LET r == UpdateExpense(W, W.st[chat][1].TempExpense[1], chat, env)
    IN  IF W.st[chat][1].TempExpense = NilPtr THEN sendMessage(W, chat, "no_expense_to_save")
        ELSE IF r.err THEN sendError(r.W, chat)
        ELSE Send(deleteState(r.W, chat), chat, "expense_updated")

\* case strings.HasPrefix(data, "edit_"): select the expense to edit
editSelectCallback(W, chat, data, env) ==
    LET id == ParseInt(TrimPrefix(data, <<"edit">>))
        e == GetExpenseByID(W, id.value, env)
        denial == checkExpenseOwnership(W, chat, e.expense, env)
    IN  IF id.err THEN sendError(W, chat)
        ELSE IF e.err THEN sendError(W, chat)
        ELSE IF e.expense = NilPtr THEN sendMessage(W, chat, "expense_not_found")
        ELSE IF denial # "" THEN sendMessage(W, chat, denial)
        ELSE Send([W EXCEPT !.st[chat][1].TempExpense = e.expense,
                            !.st[chat][1].Step = "StepEditExpense"],
                  chat, "editing_expense")

\* case strings.HasPrefix(data, "delete_")
deleteSelectCallback(W, chat, data, env) ==
    LET id == ParseInt(TrimPrefix(data, <<"delete">>))
        e == GetExpenseByID(W, id.value, env)
        denial == checkExpenseOwnership(W, chat, e.expense, env)
    IN  IF id.err THEN sendError(W, chat)
        ELSE IF e.err THEN sendError(W, chat)
        ELSE IF e.expense = NilPtr THEN sendMessage(W, chat, "expense_not_found")
        ELSE IF denial # "" THEN sendMessage(W, chat, denial)
        ELSE Send([W EXCEPT !.st[chat][1].DeleteExpense = e.expense,
                            !.st[chat][1].Step = "StepConfirmDelete"],
                  chat, "confirm_delete_prompt")

\* case data == "confirm_delete"
confirmDeleteCallback(W, chat, env) ==
    LET r == DeleteExpense(W, W.st[chat][1].DeleteExpense[1].ID, chat, env)
    IN  IF W.st[chat][1].DeleteExpense = NilPtr
        THEN sendMessage(W, chat, "no_expense_selected")
        ELSE IF r.err THEN sendError(r.W, chat)
        ELSE Send(deleteState(r.W, chat), chat, "expense_deleted")

\* case strings.HasPrefix(data, "confirm_")
confirmCallback(W, chat, data) ==
    IF /\ data = <<"confirm", "yes">>
       /\ W.st[chat][1].Step = "StepConfirmDelete"
       /\ W.st[chat][1].DeleteExpense # NilPtr
    THEN deleteState(Send(W, chat, "expense_deleted"), chat)
    ELSE Send(deleteState(W, chat), chat, "operation_cancelled")

\* a router that looks at no payload and touches no session
handleCallbackQuery_lookFirst(W, chat, data, env, t) ==
    sendMessage([W EXCEPT !.out.route = "default"], chat, "invalid_selection")

\* a router that tries the short prefixes first
Route_shortFirst(data) ==
    IF HasPrefix(data, <<"group">>) THEN "group"
    ELSE IF HasPrefix(data, <<"category">>) THEN "category"
    ELSE IF HasPrefix(data, <<"vehicle">>) THEN "vehicle"
    ELSE IF HasPrefix(data, <<"edit">>) THEN "edit"
    ELSE IF HasPrefix(data, <<"delete">>) THEN "delete"
    ELSE IF HasPrefix(data, <<"confirm">>) THEN "confirm"
    ELSE IF HasPrefix(data, <<"edit", "field">>) THEN "edit_field"
    ELSE IF HasPrefix(data, <<"edit", "vehicle">>) THEN "edit_vehicle"
    ELSE IF data = <<"edit", "save">> THEN "edit_save"
    ELSE IF data = <<"edit", "cancel">> THEN "edit_cancel"
    ELSE IF data = <<"confirm", "delete">> THEN "confirm_delete"
    ELSE IF data = <<"back", "to", "groups">> THEN "back_to_groups"
    ELSE IF data = <<"back", "to", "main">> THEN "back_to_main"
    ELSE "default"

\* the switch of handleCallbackQuery: the first case, in the order of the
\* source, that the payload matches
Route(data) ==
    IF HasPrefix(data, <<"group">>) THEN "group"
    ELSE IF HasPrefix(data, <<"category">>) THEN "category"
    ELSE IF HasPrefix(data, <<"vehicle">>) THEN "vehicle"
    ELSE IF HasPrefix(data, <<"edit", "field">>) THEN "edit_field"
    ELSE IF HasPrefix(data, <<"edit", "vehicle">>) THEN "edit_vehicle"
    ELSE IF data = <<"edit", "save">> THEN "edit_save"
    ELSE IF data = <<"edit", "cancel">> THEN "edit_cancel"
    ELSE IF HasPrefix(data, <<"edit">>) THEN "edit"
    ELSE IF HasPrefix(data, <<"delete">>) THEN "delete"
    ELSE IF data = <<"confirm", "delete">> THEN "confirm_delete"
    ELSE IF data = <<"back", "to", "groups">> THEN "back_to_groups"
    ELSE IF data = <<"back", "to", "main">> THEN "back_to_main"
    ELSE IF HasPrefix(data, <<"confirm">>) THEN "confirm"
    ELSE "default"

\* a router that leaves a session without a draft as it is
initTempExpense_skip(W, chat) == W

\* if state.TempExpense == nil { state.TempExpense = &models.Expense{UserID: chatID} }
initTempExpense(W, chat) ==
    IF W.st[chat][1].TempExpense = NilPtr
    THEN [W EXCEPT !.st[chat][1].TempExpense = <<[EmptyExpense EXCEPT !.UserID = chat]>>]
    ELSE W

handleCallbackQuery(W, chat, data, env, t) ==
    LET W1 == IF getState(W, chat) = NilPtr
              THEN setState(W, chat, NewUserState(t), t) ELSE W
        W2 == initTempExpense(W1, chat)
        case == Route(data)
        W3 == [W2 EXCEPT !.out.route = case]
    IN  CASE case = "group" ->
               IF GetCategoriesByGroupErr(TrimPrefix(data, <<"group">>), env)
               THEN sendError(W3, chat) ELSE Send(W3, chat, "select_category")
          [] case = "category" -> categoryCallback(W3, chat, data, env)
          [] case = "vehicle" -> vehicleCallback(W3, chat, data)
          [] case = "edit_field" -> editFieldCallback(W3, chat, data)
          [] case = "edit_vehicle" -> editVehicleCallback(W3, chat, data)
          [] case = "edit_save" -> editSaveCallback(W3, chat, env)
          [] case = "edit_cancel" ->
               Send(deleteState(W3, chat), chat, "edit_cancelled")
          [] case = "edit" -> editSelectCallback(W3, chat, data, env)
          [] case = "delete" -> deleteSelectCallback(W3, chat, data, env)
          [] case = "confirm_delete" -> confirmDeleteCallback(W3, chat, env)
          [] case = "back_to_groups" -> Send(W3, chat, "select_group")
          [] case = "back_to_main" -> Send(W3, chat, "main_menu")
          [] case = "confirm" -> confirmCallback(W3, chat, data)
          [] OTHER -> sendMessage(W3, chat, "invalid_selection")

\* cleanupExpiredStates: visits the map's entries in any order, dropping the
\* expired ones (Go allows delete during range)
RECURSIVE cleanupFrom(_, _, _)
cleanupFrom(st, keys, t) ==
    IF keys = {} THEN st
    ELSE LET userID == CHOOSE k \in keys : TRUE
             expired == t - st[userID][1].LastActivity > StateTimeout
         IN  cleanupFrom(IF expired THEN [st EXCEPT ![userID] = NilPtr] ELSE st,
                         keys \ {userID}, t)
\* a sweep that also drops the states idle for exactly the timeout
cleanupExpiredStates_atTimeout(st, t) ==
    [c \in DOMAIN st |->
       IF st[c] # NilPtr /\ t - st[c][1].LastActivity >= StateTimeout
       THEN NilPtr ELSE st[c]]

cleanupExpiredStates(st, t) ==
    cleanupFrom(st, {k \in DOMAIN st : st[k] # NilPtr}, t)

-----------------------------------------------------------------------------
(* The bot handling one event at a time                                    *)

\* a stored expense row
Row(id, owner, category, total) ==
    [EmptyExpense EXCEPT !.ID = id, !.UserID = owner, !.CategoryName = category,
                         !.TotalPrice = total]

\* NewBot: empty session map, zero metrics, full token bucket.  The storage
\* holds what earlier runs left: users and their expenses.
\* a handler's locals before it has an event
NoEvent == [kind |-> "none", data |-> <<>>, text |-> ""]
ZeroMetrics == [messageCount |-> 0, commandCount |-> 0, errorCount |-> 0, activeUsers |-> 0]

\* a goroutine's locals: the event, the state pointer, the step switched on,
\* the counter being incremented with the value loaded from it, the map
\* GetMetrics is building, and the slice of expense pointers it holds
NoLocal == [event |-> NoEvent, state |-> 0, step |-> "",
            metric |-> "", value |-> 0, snap |-> ZeroMetrics, list |-> <<>>]

Init ==
    /\ states = [c \in Chats |-> NilPtr]
    /\ \/ /\ dbUsers = [c \in Chats |-> IF c \in Users THEN UserRowID(c) ELSE 0]
          /\ dbExpenses = [i \in 1..MaxExpenseID |->
                             CASE i = 1 -> <<Row(1, UserRowID(1), "Petrol", 100000)>>
                               [] i = 2 -> <<Row(2, UserRowID(2), "Grocery", 9672)>>
                               [] OTHER -> NilPtr]
       \/ /\ dbUsers = [c \in Chats |-> IF c = 2 THEN UserRowID(c) ELSE 0]
          /\ dbExpenses = [i \in 1..MaxExpenseID |->
                             IF i = 1 THEN <<Row(1, UserRowID(2), "Grocery", 9672)>>
                             ELSE NilPtr]
    /\ metrics = ZeroMetrics
    /\ tokens = Burst
    /\ now = 0
    /\ out = NoOut
    /\ events = 0
    /\ script = <<>>
    /\ admitted = 0
    /\ heap = <<>>
    /\ stateMap = [c \in Chats |-> 0]
    /\ stateMutex = [writer |-> "", readers |-> {}]
    /\ pc = [t \in Threads |-> "idle"]
    /\ local = [t \in Handlers |-> NoLocal]
    /\ sweep = [now |-> 0, keys |-> {}]
    /\ crashed = FALSE
    /\ batch = <<>>
    /\ base = [st |-> NilPtr, users |-> dbUsers, exps |-> dbExpenses]

\* the bot as the handler of an event finds it; actor is whom the event is from
World(actor) ==
    [st |-> states, users |-> dbUsers, exps |-> dbExpenses, m |-> metrics,
     tok |-> tokens, out |-> [NoOut EXCEPT !.actor = actor]]

\* the handler's effects become the bot's state
Commit(W) ==
    /\ states' = W.st
    /\ dbUsers' = W.users
    /\ dbExpenses' = W.exps
    /\ metrics' = W.m
    /\ tokens' = W.tok
    /\ out' = W.out
    /\ events' = events + 1
    /\ UNCHANGED <<now, concVars>>

\* Start's loop receives a message: handleMessage
HandleMessage(from, chat, text, env) ==
    /\ events < MaxEvents
    /\ Commit(handleMessage(World(from), from, chat, text, env, now))
    /\ UNCHANGED <<script, admitted>>

\* Start's loop receives a callback query: handleCallbackQuery
HandleCallback(chat, data, env) ==
    /\ events < MaxEvents
    /\ Commit(handleCallbackQuery(World(chat), chat, data, env, now))
    /\ UNCHANGED <<script, admitted>>

\* time passes; the limiter's bucket (one token per 100ms) is full again
Tick(d) ==
    /\ now + d <= MaxTime
    /\ now' = now + d
    /\ tokens' = Burst
    /\ UNCHANGED <<states, dbUsers, dbExpenses, metrics, out, events, script, admitted>>
    /\ UNCHANGED concVars

\* startCleanupRoutine's ticker fires: cleanupExpiredStates
Sweep ==
    /\ states' = cleanupExpiredStates(states, now)
    /\ UNCHANGED <<dbUsers, dbExpenses, metrics, tokens, now, out, events, script, admitted>>
    /\ UNCHANGED concVars

\* what the users send in the conversations explored: private chats, the
\* add, edit and delete dialogs
DialogTexts == {"1000", "abc", "/cancel"}
DialogPayloads ==
    { <<"category", "Petrol">>, <<"vehicle", "CAR">>,
      <<"edit", "1">>, <<"edit", "2">>, <<"delete", "1">>, <<"delete", "2">>,
      <<"edit", "field", "total">>, <<"edit", "save">>, <<"confirm", "delete">> }
DialogEnvs == {EnvOK, EnvSendFails}

Next ==
    \/ \E from \in Users, text \in DialogTexts, env \in DialogEnvs :
          HandleMessage(from, from, text, env)
    \/ \E chat \in Users, data \in DialogPayloads, env \in DialogEnvs :
          HandleCallback(chat, data, env)
    \/ \E d \in TickSteps : Tick(d)
    \/ Sweep

Spec == Init /\ [][Next]_vars

-----------------------------------------------------------------------------
(* Claims on the dialog state machine and the callback router              *)

NumericSteps ==
    {"StepOdometer", "StepPetrolPrice", "StepTotalPrice",
     "StepEditOdometer", "StepEditPetrolPrice", "StepEditTotalPrice"}

\* the draft field a numeric step fills
FieldOf(step) ==
    CASE step \in {"StepOdometer", "StepEditOdometer"} -> "Odometer"
      [] step \in {"StepPetrolPrice", "StepEditPetrolPrice"} -> "PetrolPrice"
      [] OTHER -> "TotalPrice"

\* a user with a draft at a numeric step sends the non-numeric text "abc"
RejectCase(u, env) ==
    /\ states[u] # NilPtr
    /\ states[u][1].Step \in NumericSteps
    /\ states[u][1].TempExpense # NilPtr
    /\ HandleMessage(u, u, "abc", env)

\* C1: a non-numeric text received at a numeric step leaves the step and the
\* step's draft field as they were before the message.
C1_NumericRejection ==
    [][\A u \in Users, env \in DialogEnvs :
          RejectCase(u, env) =>
             /\ states'[u] # NilPtr
             /\ states'[u][1].Step = states[u][1].Step
             /\ states'[u][1].TempExpense # NilPtr
             /\ states'[u][1].TempExpense[1][FieldOf(states[u][1].Step)] =
                   states[u][1].TempExpense[1][FieldOf(states[u][1].Step)]]_vars

\* the expense a selection payload ("edit_<id>", "delete_<id>") names
SelectPayloads ==
    {d \in DialogPayloads : Len(d) = 2 /\ d[1] \in {"edit", "delete"} /\ ~ParseInt(d[2]).err}
SelectedID(data) == ParseInt(data[2]).value

\* chat selects a live expense that another user owns
DenialCase(chat, data, env) ==
    /\ dbUsers[chat] # 0
    /\ dbExpenses[SelectedID(data)] # NilPtr
    /\ ~dbExpenses[SelectedID(data)][1].Deleted
    /\ dbExpenses[SelectedID(data)][1].UserID # dbUsers[chat]
    /\ out'.actor = chat /\ tokens' = tokens
    /\ HandleCallback(chat, data, env)

\* the draft the callback router puts where a session has none
FreshDraft(chat) == <<[EmptyExpense EXCEPT !.UserID = chat]>>

\* the session a denied selection leaves: the one it found, a missing one
\* created at the start step, a missing draft replaced by an empty one
AfterDenial(chat) ==
    LET found == IF states[chat] = NilPtr THEN NewUserState(now) ELSE states[chat][1]
    IN  <<[found EXCEPT !.TempExpense =
                            IF @ = NilPtr THEN FreshDraft(chat) ELSE @]>>

\* Step, TempExpense and DeleteExpense of a session; a user without a
\* session is at the start step with no draft and no selection
SessionView(p) ==
    IF p = NilPtr
    THEN [Step |-> "StepStart", TempExpense |-> NilPtr, DeleteExpense |-> NilPtr]
    ELSE [Step |-> p[1].Step, TempExpense |-> p[1].TempExpense,
          DeleteExpense |-> p[1].DeleteExpense]

C4_OnlyOwnRecordsWritten ==
    out.dbop \in {"update", "delete"} =>
       /\ dbUsers[out.actor] # 0
       /\ out.dbowner = dbUsers[out.actor]

\* user 2 has deleted the own record 2 while record 1 of user 1 is untouched
C4_Witness ==
    /\ out.dbop = "delete" /\ out.dbid = 2 /\ out.actor = 2
    /\ Len(dbExpenses) >= 2
    /\ dbExpenses[2] # NilPtr /\ dbExpenses[2][1].Deleted
    /\ dbExpenses[1] # NilPtr /\ ~dbExpenses[1][1].Deleted

-----------------------------------------------------------------------------
(* The add dialog as one user in a private chat goes through it: the user *)
(* picks a category and then answers each prompt the bot sends.  script   *)
(* records what the user sent and which storage fault the event met.      *)

FlowEnvs == {EnvOK, EnvNilNotFound, EnvWriteFails}

\* the buttons the user can press next
FlowPayloads ==
    IF script = <<>> THEN {<<"category", "Petrol">>, <<"category", "Grocery">>}
    ELSE IF out.reply = "select_vehicle_type" THEN {<<"vehicle", "CAR">>, <<"vehicle", "BIKE">>}
    ELSE {}

\* the texts the user can answer the last prompt with
FlowTexts ==
    IF out.reply \in {"enter_odometer", "enter_petrol_price", "enter_total_price"}
    THEN NumericTexts \cup {"abc"}
    ELSE IF out.reply = "enter_notes" THEN {"fuel", "/skip"}
    ELSE {}

InConversation(u) == IF script = <<>> THEN TRUE ELSE script[1].from = u

FlowCallback(u, data, env) ==
    /\ InConversation(u)
    /\ data \in FlowPayloads
    /\ Commit(handleCallbackQuery(World(u), u, data, env, now))
    /\ script' = Append(script, [from |-> u, data |-> data, text |-> "", fault |-> env.fault])
    /\ UNCHANGED admitted

FlowMessage(u, text, env) ==
    /\ InConversation(u)
    /\ text \in FlowTexts
    /\ Commit(handleMessage(World(u), u, u, text, env, now))
    /\ script' = Append(script, [from |-> u, data |-> <<>>, text |-> text, fault |-> env.fault])
    /\ UNCHANGED admitted

NextFlow ==
    \/ \E u \in Users, env \in FlowEnvs :
          \E data \in {<<"category", "Petrol">>, <<"category", "Grocery">>,
                       <<"vehicle", "CAR">>, <<"vehicle", "BIKE">>} :
             FlowCallback(u, data, env)
    \/ \E u \in Users, env \in FlowEnvs :
          \E text \in NumericTexts \cup {"abc", "fuel", "/skip"} : FlowMessage(u, text, env)

SpecFlow == Init /\ [][NextFlow]_vars

\* the rows the storage started with
SeedRows == IF dbExpenses[1][1].UserID = UserRowID(1) THEN {1, 2} ELSE {1}
StoredRows == {i \in DOMAIN dbExpenses : dbExpenses[i] # NilPtr}

\* the whole add dialog for Petrol has been gone through with valid inputs
\* and no storage call has failed
AddFlowDone ==
    /\ Len(script) = 6
    /\ script[1].data = <<"category", "Petrol">>
    /\ script[2].data \in {<<"vehicle", "CAR">>, <<"vehicle", "BIKE">>}
    /\ \A i \in 3..5 : script[i].text \in NumericTexts
    /\ script[6].text \in {"fuel", "/skip"}
    /\ \A i \in 1..6 : script[i].fault = "none"
    /\ dbUsers[script[1].from] # 0

-----------------------------------------------------------------------------
(* The session store under the eviction sweeper: sessions are created and *)
(* refreshed by events at different times, and the sweeper runs at any    *)
(* time.                                                                  *)

SweepTicks == {5, 10, 20}

NextSweep ==
    \/ \E from \in Users : HandleMessage(from, from, "fuel", EnvOK)
    \/ \E chat \in Chats : HandleCallback(chat, <<"back", "to", "main">>, EnvOK)
    \/ \E d \in SweepTicks : Tick(d)
    \/ Sweep

SpecSweep == Init /\ [][NextSweep]_vars

\* how long the session of c has been idle
Idle(c) == now - states[c][1].LastActivity

\* C10: one run of the sweeper removes exactly the sessions idle for more
\* than the timeout and leaves every other session as it was: with the
\* timeout of 30, a session idle 35 is removed, one idle 10 or 30 is kept;
\* a sweep that finds no expired session changes nothing.
C10_EvictionExact ==
    [][Sweep =>
         /\ \A c \in Chats :
               states'[c] = IF states[c] # NilPtr /\ Idle(c) > StateTimeout
                            THEN NilPtr ELSE states[c]
         /\ \A c \in Chats :
               states[c] # NilPtr =>
                  /\ Idle(c) = 35 => states'[c] = NilPtr
                  /\ Idle(c) \in {10, 30} => states'[c] = states[c]
         /\ (\A c \in Chats : states[c] # NilPtr => Idle(c) <= StateTimeout)
               => states' = states]_vars

\* after a sweep at 35: the session of user 1, idle 35, is gone (two
\* sessions were created by messages, only one is left), the session of
\* user 2, idle 30, and the session of the group chat, idle 10, are kept
C10_Witness ==
    /\ now = 35
    /\ metrics.activeUsers = 2
    /\ states[1] = NilPtr
    /\ states[2] # NilPtr /\ Idle(2) = 30
    /\ states[-1] # NilPtr /\ Idle(-1) = 10

-----------------------------------------------------------------------------
(* The bot statement by statement: handler goroutines handling events of  *)
(* one user in a private chat, and the sweeper's goroutine.  A handler    *)
(* holds a pointer to the UserState it got from the map; the map holds    *)
(* addresses into heap.                                                    *)

ConcUser == CHOOSE u \in Users : \A v \in Users : u <= v

ConcEvents ==
    { [kind |-> "callback", data |-> <<"category", "Petrol">>, text |-> ""],
      [kind |-> "callback", data |-> <<"category", "Grocery">>, text |-> ""],
      [kind |-> "message", data |-> <<>>, text |-> "1000"],
      [kind |-> "message", data |-> <<>>, text |-> "/cancel"] }

IsMessage(t) == local[t].event.kind = "message"

\* a goroutine can also call the store directly, as the tests of the bot do
StoreCalls == {"getState", "setState", "delete"}
IsStoreCall(t) == local[t].event.kind \in StoreCalls

\* where getState and setState return to
AfterGet(t) ==
    IF IsStoreCall(t) THEN "return"
    ELSE IF stateMap[ConcUser] = 0 THEN "new"
    ELSE IF IsMessage(t) THEN "touch" ELSE "draft"
AfterSet(t) ==
    IF IsStoreCall(t) THEN "idle" ELSE IF IsMessage(t) THEN "touch" ELSE "draft"

\* the goroutine is inside an access of the map b.states
InMapRead(t) == pc[t] = "getRead"
InMapWrite(t) == pc[t] \in {"setWrite", "delete", "scan"}
InMapAccess(t) == InMapRead(t) \/ InMapWrite(t)

HoldsLock(t) == stateMutex.writer = t \/ t \in stateMutex.readers

\* metricsMutex: a goroutine holds it from its Lock (RLock) to the Unlock
\* (RUnlock) that follows, that is while it is at one of these statements
\* (an Unlock that waits until the error has been reported)
MetricsWritePcs_untilSent == {"metricLoad", "metricStore", "sendError"}
MetricsWritePcs == {"metricLoad", "metricStore"}
MetricsReadPcs == {"readMessage", "readCommand", "readError", "readActive", "metricsReturn"}
HoldsMetrics(t) == pc[t] \in MetricsWritePcs \cup MetricsReadPcs

\* a metricsMutex that never makes a goroutine wait
MetricsFree_always(t) == TRUE

\* metricsMutex.Lock() can return: no other goroutine holds the lock
MetricsFree(t) == \A o \in Threads \ {t} : ~HoldsMetrics(o)

\* metricsMutex.RLock() can return: no other goroutine holds the write lock
MetricsReadable(t) == \A o \in Threads \ {t} : pc[o] \notin MetricsWritePcs

\* t's access of the map overlaps an access by another goroutine, one of
\* the two is a write, and the lock does not keep them apart: a data race
MapRace(t) ==
    \E o \in Threads \ {t} :
       /\ InMapAccess(o)
       /\ InMapWrite(t) \/ InMapWrite(o)
       /\ ~(HoldsLock(t) /\ HoldsLock(o))

\* the runtime detects the concurrent map access and stops the process
Crash ==
    /\ crashed' = TRUE
    /\ UNCHANGED <<seqVars, heap, stateMap, stateMutex, pc, local, sweep, batch, base>>

\* no handler is in flight
Quiescent == \A t \in Handlers : pc[t] = "idle"

\* the user's session as the map and the heap hold it
CurrentSession ==
    IF stateMap[ConcUser] = 0 THEN NilPtr ELSE <<heap[stateMap[ConcUser]]>>

Goto(t, label) == pc' = [pc EXCEPT ![t] = label]

\* the handler replies and returns
Reply(t, kind) ==
    out' = [NoOut EXCEPT !.actor = ConcUser, !.chat = ConcUser, !.reply = kind]

\* Start's loop, or a caller of HandleUpdate, hands an event to a handler:
\* handleMessage counts the message and asks the limiter
Begin(t, ev) ==
    /\ ~crashed /\ pc[t] = "idle" /\ events < MaxEvents
    /\ events' = events + 1
    /\ IF Quiescent
       THEN /\ batch' = <<ev>>
            /\ base' = [st |-> CurrentSession, users |-> dbUsers, exps |-> dbExpenses]
       ELSE /\ batch' = Append(batch, ev)
            /\ UNCHANGED base
    /\ local' = [local EXCEPT ![t] = [NoLocal EXCEPT !.event = ev]]
    /\ IF ev.kind = "message"
       THEN /\ MetricsFree(t)
            /\ metrics' = [metrics EXCEPT !.messageCount = @ + 1,
                                          !.errorCount = IF tokens > 0 THEN @ ELSE @ + 1]
            /\ tokens' = IF tokens > 0 THEN tokens - 1 ELSE tokens
            /\ IF tokens > 0 THEN Goto(t, "getLock") /\ UNCHANGED out
               ELSE Goto(t, "idle") /\ Reply(t, "too_many_requests")
       ELSE Goto(t, "getLock") /\ UNCHANGED <<metrics, tokens, out>>
    /\ UNCHANGED <<states, dbUsers, dbExpenses, now, script, admitted>>
    /\ UNCHANGED <<heap, stateMap, stateMutex, sweep, crashed>>

\* getState: b.stateMutex.RLock()
GetLock(t) ==
    /\ ~crashed /\ pc[t] = "getLock"
    /\ stateMutex.writer = ""
    /\ stateMutex' = [stateMutex EXCEPT !.readers = @ \cup {t}]
    /\ Goto(t, "getRead")
    /\ UNCHANGED <<seqVars, heap, stateMap, local, sweep, crashed, batch, base>>

\* getState: return b.states[userID], RUnlock; then "if state == nil"
GetRead(t) ==
    /\ ~crashed /\ pc[t] = "getRead"
    /\ \/ /\ local' = [local EXCEPT ![t].state = stateMap[ConcUser]]
          /\ stateMutex' = [stateMutex EXCEPT !.readers = @ \ {t}]
          /\ Goto(t, AfterGet(t))
          /\ UNCHANGED <<seqVars, heap, stateMap, sweep, crashed, batch, base>>
       \/ MapRace(t) /\ Crash

\* state = models.NewUserState()
New(t) ==
    /\ ~crashed /\ pc[t] = "new"
    /\ heap' = Append(heap, NewUserState(now))
    /\ local' = [local EXCEPT ![t].state = Len(heap) + 1]
    /\ Goto(t, "setLock")
    /\ UNCHANGED <<seqVars, stateMap, stateMutex, sweep, crashed, batch, base>>

\* setState: b.stateMutex.Lock()
SetLock(t) ==
    /\ ~crashed /\ pc[t] = "setLock"
    /\ stateMutex.writer = "" /\ stateMutex.readers = {}
    /\ stateMutex' = [stateMutex EXCEPT !.writer = t]
    /\ Goto(t, "setWrite")
    /\ UNCHANGED <<seqVars, heap, stateMap, local, sweep, crashed, batch, base>>

\* a setState that stamps the state and does not put it in the map
SetWrite_noStore(t) ==
    /\ ~crashed /\ pc[t] = "setWrite"
    /\ heap' = [heap EXCEPT ![local[t].state].LastActivity = now]
    /\ stateMutex' = [stateMutex EXCEPT !.writer = ""]
    /\ Goto(t, AfterSet(t))
    /\ UNCHANGED <<seqVars, stateMap, local, sweep, crashed, batch, base>>

\* setState: state.LastActivity = time.Now(); b.states[userID] = state;
\* Unlock; handleMessage then counts an active user
SetWrite(t) ==
    /\ ~crashed /\ pc[t] = "setWrite"
    /\ \/ /\ heap' = [heap EXCEPT ![local[t].state].LastActivity = now]
          /\ stateMap' = [stateMap EXCEPT ![ConcUser] = local[t].state]
          /\ stateMutex' = [stateMutex EXCEPT !.writer = ""]
          /\ IsMessage(t) => MetricsFree(t)
          /\ metrics' = IF IsMessage(t) THEN [metrics EXCEPT !.activeUsers = @ + 1]
                        ELSE metrics
          /\ Goto(t, AfterSet(t))
          /\ UNCHANGED <<states, dbUsers, dbExpenses, tokens, now, out, events, script, admitted>>
          /\ UNCHANGED <<local, sweep, crashed, batch, base>>
       \/ MapRace(t) /\ Crash

\* handleMessage: state.UpdateActivity()
Touch(t) ==
    /\ ~crashed /\ pc[t] = "touch"
    /\ heap' = [heap EXCEPT ![local[t].state] = UpdateActivity(@, now)]
    /\ Goto(t, "dispatch")
    /\ UNCHANGED <<seqVars, stateMap, stateMutex, local, sweep, crashed, batch, base>>

\* handleMessage: a command goes to handleCommand (/cancel deletes the
\* entry), a text to handleState, which switches on state.Step
Dispatch(t) ==
    /\ ~crashed /\ pc[t] = "dispatch"
    /\ LET step == heap[local[t].state].Step
       IN  IF IsCommand(local[t].event.text)
           THEN /\ MetricsFree(t)
                /\ metrics' = [metrics EXCEPT !.commandCount = @ + 1]
                /\ Goto(t, "delete")
                /\ UNCHANGED <<local, out>>
           ELSE /\ local' = [local EXCEPT ![t].step = step]
                /\ UNCHANGED metrics
                /\ CASE step = "StepStart" -> Goto(t, "idle") /\ Reply(t, "welcome")
                     [] step = "StepTotalPrice" -> Goto(t, "apply") /\ UNCHANGED out
                     [] step = "StepNotes" -> Goto(t, "notes") /\ UNCHANGED out
                     [] OTHER -> Goto(t, "idle") /\ Reply(t, "use_commands_or_buttons")
    /\ UNCHANGED <<states, dbUsers, dbExpenses, tokens, now, events, script, admitted>>
    /\ UNCHANGED <<heap, stateMap, stateMutex, sweep, crashed, batch, base>>

\* handleState, case StepTotalPrice: parse, store, move on, prompt
Apply(t) ==
    /\ ~crashed /\ pc[t] = "apply"
    /\ LET p == ParseFloat(local[t].event.text)
           obj == heap[local[t].state]
       IN  IF p.err THEN UNCHANGED heap /\ Reply(t, "invalid_number")
           ELSE IF obj.TempExpense = NilPtr THEN UNCHANGED heap /\ Reply(t, "PANIC")
           ELSE /\ heap' = [heap EXCEPT ![local[t].state].TempExpense[1].TotalPrice = p.value,
                                        ![local[t].state].Step = "StepNotes"]
                /\ Reply(t, "enter_notes")
    /\ Goto(t, "idle")
    /\ UNCHANGED <<states, dbUsers, dbExpenses, metrics, tokens, now, events, script, admitted>>
    /\ UNCHANGED <<stateMap, stateMutex, local, sweep, crashed, batch, base>>

\* handleState, case StepNotes: fill the draft, store the expense; when it
\* is stored the entry is deleted next
Notes(t) ==
    /\ ~crashed /\ pc[t] = "notes"
    /\ heap[local[t].state].TempExpense # NilPtr
    /\ LET text == local[t].event.text
           draft == [heap[local[t].state].TempExpense[1] EXCEPT
                        !.Notes = IF text # "/skip" THEN text ELSE @,
                        !.UserID = ConcUser]
           u == GetOrCreateUser(World(ConcUser), ConcUser, EnvOK)
           c == GetCategoryByName(draft.CategoryName, EnvOK)
           expense == [EmptyExpense EXCEPT !.CategoryName = draft.CategoryName,
                                           !.TotalPrice = draft.TotalPrice,
                                           !.Odometer = draft.Odometer,
                                           !.PetrolPrice = draft.PetrolPrice,
                                           !.Notes = draft.Notes]
           r == CreateExpense(u.W, expense, ConcUser, EnvOK)
           stored == ~u.err /\ ~c.err /\ c.category # NilPtr /\ ~r.err
       IN  /\ heap' = [heap EXCEPT ![local[t].state].TempExpense = <<draft>>]
           /\ dbUsers' = IF u.err THEN dbUsers ELSE u.W.users
           /\ dbExpenses' = IF stored THEN r.W.exps ELSE dbExpenses
           /\ IF stored THEN Goto(t, "delete") /\ UNCHANGED out
              ELSE Goto(t, "idle") /\ Reply(t, "error")
    /\ UNCHANGED <<states, metrics, tokens, now, events, script, admitted>>
    /\ UNCHANGED <<stateMap, stateMutex, local, sweep, crashed, batch, base>>

\* delete(b.states, message.Chat.ID), without the lock, then the reply
Delete(t) ==
    /\ ~crashed /\ pc[t] = "delete"
    /\ \/ /\ stateMap' = [stateMap EXCEPT ![ConcUser] = 0]
          /\ Goto(t, "idle")
          /\ IF IsStoreCall(t) THEN UNCHANGED out
             ELSE Reply(t, IF IsCommand(local[t].event.text) THEN "operation_cancelled"
                           ELSE "expense_added")
          /\ UNCHANGED <<states, dbUsers, dbExpenses, metrics, tokens, now, events, script, admitted>>
          /\ UNCHANGED <<heap, stateMutex, local, sweep, crashed, batch, base>>
       \/ MapRace(t) /\ Crash

\* handleCallbackQuery: "if state.TempExpense == nil", the empty draft
Draft(t) ==
    /\ ~crashed /\ pc[t] = "draft"
    /\ heap' = [heap EXCEPT ![local[t].state].TempExpense =
                                IF @ = NilPtr THEN FreshDraft(ConcUser) ELSE @]
    /\ Goto(t, "setCategory")
    /\ UNCHANGED <<seqVars, stateMap, stateMutex, local, sweep, crashed, batch, base>>

\* case "category_": state.TempExpense.CategoryName = category.Name
SetCategory(t) ==
    /\ ~crashed /\ pc[t] = "setCategory"
    /\ heap[local[t].state].TempExpense # NilPtr
    /\ LET c == GetCategoryByName(TrimPrefix(local[t].event.data, <<"category">>), EnvOK)
       IN  IF c.err \/ c.category = NilPtr
           THEN UNCHANGED heap /\ Goto(t, "idle") /\ Reply(t, "error")
           ELSE /\ heap' = [heap EXCEPT ![local[t].state].TempExpense[1].CategoryName =
                                           c.category[1].Name]
                /\ Goto(t, "setStep")
                /\ UNCHANGED out
    /\ UNCHANGED <<states, dbUsers, dbExpenses, metrics, tokens, now, events, script, admitted>>
    /\ UNCHANGED <<stateMap, stateMutex, local, sweep, crashed, batch, base>>

\* case "category_": state.Step = StepVehicleType or StepTotalPrice, the prompt
SetStep(t) ==
    /\ ~crashed /\ pc[t] = "setStep"
    /\ LET vehicle == CategoryGroup(TrimPrefix(local[t].event.data, <<"category">>)) = "Vehicle"
       IN  /\ heap' = [heap EXCEPT ![local[t].state].Step =
                                      IF vehicle THEN "StepVehicleType" ELSE "StepTotalPrice"]
           /\ Reply(t, IF vehicle THEN "select_vehicle_type" ELSE "enter_total_price")
    /\ Goto(t, "idle")
    /\ UNCHANGED <<states, dbUsers, dbExpenses, metrics, tokens, now, events, script, admitted>>
    /\ UNCHANGED <<stateMap, stateMutex, local, sweep, crashed, batch, base>>

\* cleanupExpiredStates: Lock, now := time.Now(), the range begins
SweepLock ==
    /\ ~crashed /\ pc[Sweeper] = "idle"
    /\ stateMutex.writer = "" /\ stateMutex.readers = {}
    /\ stateMutex' = [stateMutex EXCEPT !.writer = Sweeper]
    /\ sweep' = [now |-> now, keys |-> {c \in Chats : stateMap[c] # 0}]
    /\ Goto(Sweeper, "scan")
    /\ UNCHANGED <<seqVars, heap, stateMap, local, crashed, batch, base>>

\* cleanupExpiredStates: the range visits one entry and deletes it if expired
SweepVisit ==
    /\ ~crashed /\ pc[Sweeper] = "scan" /\ sweep.keys # {}
    /\ \/ \E userID \in sweep.keys :
             /\ sweep' = [sweep EXCEPT !.keys = @ \ {userID}]
             /\ stateMap' =
                  IF /\ stateMap[userID] # 0
                     /\ sweep.now - heap[stateMap[userID]].LastActivity > StateTimeout
                  THEN [stateMap EXCEPT ![userID] = 0] ELSE stateMap
             /\ UNCHANGED <<seqVars, heap, stateMutex, pc, local, crashed, batch, base>>
       \/ MapRace(Sweeper) /\ Crash

\* cleanupExpiredStates: the range is over, the deferred Unlock
SweepUnlock ==
    /\ ~crashed /\ pc[Sweeper] = "scan" /\ sweep.keys = {}
    /\ stateMutex' = [stateMutex EXCEPT !.writer = ""]
    /\ sweep' = [now |-> 0, keys |-> {}]
    /\ Goto(Sweeper, "idle")
    /\ UNCHANGED <<seqVars, heap, stateMap, local, crashed, batch, base>>

\* one statement of a handler goroutine
HandlerStep(t) ==
    \/ \E ev \in ConcEvents : Begin(t, ev)
    \/ GetLock(t) \/ GetRead(t) \/ New(t) \/ SetLock(t) \/ SetWrite(t)
    \/ Touch(t) \/ Dispatch(t) \/ Apply(t) \/ Notes(t) \/ Delete(t)
    \/ Draft(t) \/ SetCategory(t) \/ SetStep(t)

\* the entry points called from two goroutines
NextConc == \E t \in Handlers : HandlerStep(t)

SpecConc == Init /\ [][NextConc]_vars

\* minutes pass between events; handling an event takes no such time
IdleTick(d) == Quiescent /\ Tick(d)

\* the bot as application.Start runs it: Start's loop handles one event at a
\* time while the sweeper's goroutine runs
NextEvict ==
    \/ HandlerStep("h1")
    \/ SweepLock \/ SweepVisit \/ SweepUnlock
    \/ \E d \in TickSteps : IdleTick(d)

SpecEvict == Init /\ [][NextEvict]_vars

-----------------------------------------------------------------------------
(* The session store called from several goroutines, as in                *)
(* TestBot_StateManagement: each call is getState, setState of a new      *)
(* state, or the delete the handlers do.                                  *)

\* a goroutine calls the store
StoreCall(t, call) ==
    /\ ~crashed /\ pc[t] = "idle" /\ events < MaxEvents
    /\ events' = events + 1
    /\ IF call = "setState"
       THEN /\ heap' = Append(heap, [NewUserState(now) EXCEPT !.Step = "StepCategory"])
            /\ local' = [local EXCEPT ![t] = [NoLocal EXCEPT !.event.kind = call,
                                                       !.state = Len(heap) + 1]]
            /\ Goto(t, "setLock")
       ELSE /\ local' = [local EXCEPT ![t] = [NoLocal EXCEPT !.event.kind = call]]
            /\ Goto(t, IF call = "getState" THEN "getLock" ELSE "delete")
            /\ UNCHANGED heap
    /\ UNCHANGED <<states, dbUsers, dbExpenses, metrics, tokens, now, out, script, admitted>>
    /\ UNCHANGED <<stateMap, stateMutex, sweep, crashed, batch, base>>

\* getState has returned local[t].state to its caller
Return(t) ==
    /\ ~crashed /\ pc[t] = "return"
    /\ Goto(t, "idle")
    /\ UNCHANGED <<seqVars, heap, stateMap, stateMutex, local, sweep, crashed, batch, base>>

NextStore ==
    \E t \in Handlers :
       \/ \E call \in StoreCalls : StoreCall(t, call)
       \/ GetLock(t) \/ GetRead(t) \/ Return(t)
       \/ SetLock(t) \/ SetWrite(t)
       \/ Delete(t)

SpecStore == Init /\ [][NextStore]_vars

-----------------------------------------------------------------------------
(* Claims on concurrent handling                                           *)

\* the orders in which the events of a batch can be handled one at a time
RECURSIVE Orders(_)
Orders(evs) ==
    IF Len(evs) <= 1 THEN {evs}
    ELSE UNION { { <<evs[i]>> \o rest :
                     rest \in Orders(SubSeq(evs, 1, i - 1) \o SubSeq(evs, i + 1, Len(evs))) } :
                 i \in 1..Len(evs) }

\* the bot after handling the events one at a time, in the given order
RECURSIVE SeqRun(_, _)
SeqRun(W, evs) ==
    IF evs = <<>> THEN W
    ELSE SeqRun(IF evs[1].kind = "message"
                THEN handleMessage(W, ConcUser, ConcUser, evs[1].text, EnvOK, now)
                ELSE handleCallbackQuery(W, ConcUser, evs[1].data, EnvOK, now),
                Tail(evs))

\* the bot when the batch began
BaseWorld ==
    [st |-> [c \in Chats |-> IF c = ConcUser THEN base.st ELSE NilPtr],
     users |-> base.users, exps |-> base.exps, m |-> ZeroMetrics, tok |-> Burst,
     out |-> NoOut]

\* C5: when the events of a user handled at the same time have all been
\* handled, Step, draft and selection of the user's session are what
\* handling the same events one at a time, in some order, would have left.
C5_TransitionsAtomic ==
    (Quiescent /\ ~crashed /\ batch # <<>>) =>
       \E order \in Orders(batch) :
          SessionView(CurrentSession) = SessionView(SeqRun(BaseWorld, order).st[ConcUser])

\* the UserState objects in use for the user: the one in the map and the
\* ones handlers in flight hold
InUse ==
    ({stateMap[ConcUser]}
       \cup {local[t].state : t \in {h \in Handlers : pc[h] \notin {"idle", "getLock", "getRead"}}})
    \ {0}

\* C9: at most one UserState is in use for a user at any time.
C9_OneStatePerUser == Cardinality(InUse) <= 1

\* C6: a goroutine that reads the map holds the lock, in shared or exclusive
\* mode; one that writes the map (insert, overwrite, delete) holds it in
\* exclusive mode; so no map access of a handler overlaps a sweep.
C6_LockDiscipline ==
    /\ \A t \in Threads : InMapRead(t) => HoldsLock(t)
    /\ \A t \in Threads : InMapWrite(t) => stateMutex.writer = t
    /\ \A t \in Handlers : pc[Sweeper] = "scan" => ~InMapAccess(t)

\* the handler's next statement writes a field of the UserState it holds
Mutating(t) == pc[t] \in {"touch", "draft", "setCategory", "setStep", "apply", "notes"}

\* C7: while the sweeper runs beside the handling of an event, the handler
\* only ever mutates the UserState that is stored in the map for the user.
C7_NoOrphanMutation ==
    \A t \in Handlers : Mutating(t) => stateMap[ConcUser] = local[t].state

\* a setState of the state at address a is under way
BeingSet(a) == \E t \in Handlers : pc[t] \in {"setLock", "setWrite"} /\ local[t].state = a

-----------------------------------------------------------------------------
(* Claims on the activity stamp, the admission gate and the routing        *)

\* C11: after an event of a user, message or callback, is handled and the
\* user still has a stored state, the LastActivity of that state is the
\* time of the event.
C11_ActivityRefreshed ==
    [][\A c \in Chats :
          (events' = events + 1 /\ out'.actor = c /\ states'[c] # NilPtr)
             => states'[c][1].LastActivity = now]_vars

-----------------------------------------------------------------------------
(* The admission gate: messages and callbacks of the users arrive faster   *)
(* than the limiter refills its bucket.  A refill interval is 100 ms, far  *)
(* below the clock's minute: Refill lets one interval pass.                *)

\* /cancel: handled, it removes the session a callback has made
GateTexts == {"/cancel"}
GatePayloads == {<<"category", "Petrol">>}

GateMessage(u, text) ==
    LET W == handleMessage(World(u), u, u, text, EnvOK, now)
    IN  /\ events < MaxGateEvents
        /\ Commit(W)
        /\ admitted' = IF W.tok < tokens THEN admitted + 1 ELSE admitted
        /\ UNCHANGED script

GateCallback(u, data) ==
    /\ events < MaxGateEvents
    /\ Commit(handleCallbackQuery(World(u), u, data, EnvOK, now))
    /\ UNCHANGED <<script, admitted>>

\* rate.Every(100ms): one more token, up to the burst
Refill ==
    /\ tokens < Burst
    /\ tokens' = tokens + 1
    /\ admitted' = 0
    /\ UNCHANGED <<states, dbUsers, dbExpenses, metrics, now, out, events, script>>
    /\ UNCHANGED concVars

NextGate ==
    \/ \E u \in Users, text \in GateTexts : GateMessage(u, text)
    \/ \E u \in Users, data \in GatePayloads : GateCallback(u, data)
    \/ Refill

SpecGate == Init /\ [][NextGate]_vars

\* a message was handled in this step
MessageHandled == metrics'.messageCount # metrics.messageCount

\* C12: never more than 10 messages are admitted without a refill interval
\* in between, and once 10 have been admitted the next message, of any
\* user, is rejected and counted as an error.
C12_GateBurst ==
    [][/\ admitted' <= Burst
       /\ (MessageHandled /\ admitted = Burst) =>
             /\ out'.reply = "too_many_requests"
             /\ admitted' = admitted]_vars

\* ten messages were admitted with no refill and the eleventh, of user 2, is
\* rejected
C12_Witness ==
    /\ admitted = Burst /\ tokens = 0
    /\ metrics.messageCount = Burst + 1
    /\ metrics.errorCount = 1
    /\ out.actor = 2
    /\ out.reply = "too_many_requests"

\* C13: a message the gate rejects gets the "too many requests" reply and
\* adds exactly one to the error counter; no command is counted or run, no
\* storage call is made, and the session store is as it was.
C13_RejectionShortCircuits ==
    [][(MessageHandled /\ tokens = 0) =>
          /\ out'.reply = "too_many_requests"
          /\ metrics'.errorCount = metrics.errorCount + 1
          /\ metrics'.commandCount = metrics.commandCount
          /\ metrics'.activeUsers = metrics.activeUsers
          /\ states' = states
          /\ out'.dbop = "none"
          /\ dbUsers' = dbUsers /\ dbExpenses' = dbExpenses]_vars

\* the /cancel of a user who is in the add dialog was rejected: the session
\* is still there
C13_Witness ==
    /\ out.reply = "too_many_requests"
    /\ metrics.errorCount = 1 /\ metrics.commandCount = Burst
    /\ states[out.actor] # NilPtr
    /\ states[out.actor][1].Step = "StepVehicleType"
    /\ states[out.actor][1].TempExpense # NilPtr

\* C14: no event changes a session without having passed the gate: an
\* event that changes the session store has taken a token.
C14_GateBeforeEveryEvent ==
    [][(events' = events + 1 /\ states' # states) =>
          (tokens > 0 /\ tokens' = tokens - 1)]_vars

-----------------------------------------------------------------------------
(* The callback router under the payloads the keyboards generate           *)
(* (GetEditFieldKeyboard, the expense selection, the delete confirmation)  *)
(* and under payloads no keyboard generates.                               *)

EditFields == {"category", "vehicle", "odometer", "petrol", "total", "notes"}
KeyboardPayloads ==
    {<<"edit", "field", f>> : f \in EditFields}
       \cup {<<"edit", "vehicle", "CAR">>, <<"edit", "save">>, <<"edit", "cancel">>,
             <<"edit", "1">>, <<"delete", "1">>, <<"confirm", "delete">>,
             <<"confirm", "yes">>}
UnknownPayloads == {<<"noop">>, <<"edit">>, <<"page", "2">>, <<"back", "to", "start">>}

NextRoute ==
    \E chat \in Users, data \in KeyboardPayloads \cup UnknownPayloads :
       HandleCallback(chat, data, EnvOK)

SpecRoute == Init /\ [][NextRoute]_vars

\* the handler the payload is meant for
MostSpecific(data) ==
    CASE data[1] = "edit" /\ data[2] = "field" -> "edit_field"
      [] data[1] = "edit" /\ data[2] = "vehicle" -> "edit_vehicle"
      [] data = <<"edit", "save">> -> "edit_save"
      [] data = <<"edit", "cancel">> -> "edit_cancel"
      [] data = <<"confirm", "delete">> -> "confirm_delete"
      [] data = <<"confirm", "yes">> -> "confirm"
      [] OTHER -> data[1]

\* C15: every payload of the keyboards is handled by its most specific
\* handler: edit_field_<name>, edit_vehicle_<type>, edit_save and
\* edit_cancel never by the bare edit_<id> handler, confirm_delete never by
\* the generic confirm_ handler.
C15_PrefixPrecedence ==
    [][\A chat \in Users, data \in KeyboardPayloads :
          HandleCallback(chat, data, EnvOK) =>
             /\ out'.route = MostSpecific(data)
             /\ (data # <<"edit", "1">> => out'.route # "edit")
             /\ (data # <<"confirm", "yes">> => out'.route # "confirm")]_vars

\* edit_1 went to the bare edit handler, then edit_field_total to the
\* field-edit handler, which asks for the new total
C15_Witness ==
    /\ out.route = "edit_field"
    /\ out.reply = "enter_new_total_price"
    /\ states[out.actor] # NilPtr
    /\ states[out.actor][1].Step = "StepEditTotalPrice"
    /\ states[out.actor][1].TempExpense[1].ID = 1

-----------------------------------------------------------------------------
(* Claims on the draft and on the end of a dialog                          *)

SubSteps ==
    {"StepVehicleType", "StepOdometer", "StepPetrolPrice", "StepTotalPrice", "StepNotes",
     "StepEditExpense", "StepEditCategory", "StepEditVehicleType", "StepEditOdometer",
     "StepEditPetrolPrice", "StepEditTotalPrice", "StepEditNotes"}

EndsDialog(chat) ==
    \/ HandleCallback(chat, <<"edit", "save">>, EnvOK) /\ out'.dbop = "update"
    \/ HandleCallback(chat, <<"edit", "cancel">>, EnvOK)
    \/ HandleCallback(chat, <<"confirm", "delete">>, EnvOK) /\ out'.dbop = "delete"

\* C18: after a successful edit_save, after edit_cancel and after a
\* successful confirm_delete the chat has no session: getState finds
\* nothing, the session is not reset to the start step.
C18_SessionDeletedOnEnd ==
    [][\A chat \in Users :
          EndsDialog(chat) =>
             /\ states'[chat] = NilPtr
             /\ getState([st |-> states'], chat) = NilPtr]_vars

\* the expense 1 was selected and deleted by its owner, whose session is gone
C18_Witness ==
    /\ out.route = "confirm_delete" /\ out.dbop = "delete" /\ out.dbid = 1
    /\ out.reply = "expense_deleted"
    /\ states[out.actor] = NilPtr
    /\ dbExpenses[1][1].Deleted

-----------------------------------------------------------------------------
(* Text messages in private chats and in a group chat: a message in a      *)
(* private chat has the sender's id as chat id, a message in a group has   *)
(* the group's.  Callbacks come from the users' private chats.             *)

TextInputs == {"/cancel", "1000", "/search", MainMenuLabel.add, ButtonCase.add}
TextPayloads ==
    {<<"category", "Grocery">>, <<"category", "Petrol">>, <<"vehicle", "CAR">>,
     <<"edit", "1">>, <<"edit", "field", "total">>}

NextText ==
    \/ \E from \in Users, chat \in GroupChats, text \in TextInputs :
          HandleMessage(from, chat, text, EnvOK)
    \/ \E from \in Users, text \in TextInputs : HandleMessage(from, from, text, EnvOK)
    \/ \E chat \in Users, data \in TextPayloads : HandleCallback(chat, data, EnvOK)

SpecText == Init /\ [][NextText]_vars

\* C19: after a /cancel of user U is handled, in whatever chat U sent it, no
\* session is stored for U.
C19_CancelDeletesSession ==
    [][\A u \in Users, chat \in Chats :
          (HandleMessage(u, chat, "/cancel", EnvOK) /\ tokens > 0)
             => states'[u] = NilPtr]_vars

\* C20: at every step, a text equal to the label of the main menu's Add
\* Expense button is handled by the add command, which asks for the category
\* group, and is not taken as the input of the step: nothing is stored, and
\* Step and the draft of the session are as they were.
C20_MenuButtonEscapes ==
    [][\A u \in Users :
          (HandleMessage(u, u, MainMenuLabel.add, EnvOK) /\ tokens > 0) =>
             /\ out'.reply = "select_group"
             /\ out'.dbop = "none"
             /\ states[u] # NilPtr =>
                   /\ states'[u] # NilPtr
                   /\ states'[u][1].Step = states[u][1].Step
                   /\ states'[u][1].TempExpense = states[u][1].TempExpense]_vars

-----------------------------------------------------------------------------
(* Claims on the transitions of the dialog state machine                   *)

\* the numeric steps of the add dialog, in their order, and what follows
AddChain == <<"StepOdometer", "StepPetrolPrice", "StepTotalPrice", "StepNotes">>
ChainIndex(step) == CHOOSE i \in 1..Len(AddChain) : AddChain[i] = step
InChain(p) == p # NilPtr /\ \E i \in 1..Len(AddChain) : AddChain[i] = p[1].Step

\* C21: at Odometer, PetrolPrice and TotalPrice a valid numeric text stores
\* the parsed value in the field of the step, leaves every other field of
\* the draft alone and moves Step to the next step of the chain; no message
\* moves Step backwards in the chain or over a step of it.
C21_AddStepOrder ==
    [][\A u \in Users :
          /\ \A text \in NumericTexts, env \in FlowEnvs :
                (FlowMessage(u, text, env) /\ InChain(states[u])
                    /\ states[u][1].Step # "StepNotes") =>
                   /\ states'[u] # NilPtr
                   /\ states'[u][1].Step = AddChain[ChainIndex(states[u][1].Step) + 1]
                   /\ states'[u][1].TempExpense =
                         <<[states[u][1].TempExpense[1] EXCEPT
                               ![FieldOf(states[u][1].Step)] = ParseFloat(text).value]>>
          /\ (MessageHandled /\ InChain(states[u]) /\ InChain(states'[u])) =>
                ChainIndex(states'[u][1].Step) - ChainIndex(states[u][1].Step) \in {0, 1}]_vars

\* 50000 was stored as the odometer and 96.72 as the petrol price, and the
\* total price is asked for
C21_Witness ==
    \E u \in Users :
       /\ states[u] # NilPtr
       /\ states[u][1].Step = "StepTotalPrice"
       /\ states[u][1].TempExpense[1].Odometer = 5000000
       /\ states[u][1].TempExpense[1].PetrolPrice = 9672
       /\ states[u][1].TempExpense[1].TotalPrice = 0
       /\ out.reply = "enter_total_price"

-----------------------------------------------------------------------------
(* The keyboards of the add dialog: category and vehicle type              *)

PickCategories == {"Petrol", "Service", "Grocery", "Nowhere"}
PickVehicles == {"CAR", "BIKE"}
PickEnvs == {EnvOK, EnvSendFails, EnvLookupFails}

NextPick ==
    \/ \E chat \in Users, name \in PickCategories, env \in PickEnvs :
          HandleCallback(chat, <<"category", name>>, env)
    \/ \E chat \in Users, type \in PickVehicles, env \in PickEnvs :
          HandleCallback(chat, <<"vehicle", type>>, env)

SpecPick == Init /\ [][NextPick]_vars

\* the category the draft of chat's session names ("" without a draft)
DraftCategory(chat) ==
    IF states[chat] # NilPtr /\ states[chat][1].TempExpense # NilPtr
    THEN states[chat][1].TempExpense[1].CategoryName
    ELSE ""

\* C22: a category_<name> callback of a stored category puts the name in the
\* draft and sets Step to VehicleType for a category of the Vehicle group and
\* to TotalPrice for any other; a vehicle_<type> callback puts the type in the
\* draft and sets Step to Odometer when the draft's category is Petrol and to
\* TotalPrice for every other category.
C22_CallbackTransitions ==
    [][\A chat \in Users, env \in {EnvOK, EnvSendFails} :
          /\ \A name \in {n \in PickCategories : CategoryGroup(n) # ""} :
                HandleCallback(chat, <<"category", name>>, env) =>
                   /\ states'[chat] # NilPtr
                   /\ states'[chat][1].TempExpense[1].CategoryName = name
                   /\ states'[chat][1].Step =
                         IF CategoryGroup(name) = "Vehicle" THEN "StepVehicleType"
                         ELSE "StepTotalPrice"
          /\ \A type \in PickVehicles :
                HandleCallback(chat, <<"vehicle", type>>, env) =>
                   /\ states'[chat] # NilPtr
                   /\ states'[chat][1].TempExpense[1].VehicleType =
                         [String |-> type, Valid |-> TRUE]
                   /\ states'[chat][1].TempExpense[1].CategoryName = DraftCategory(chat)
                   /\ states'[chat][1].Step =
                         IF DraftCategory(chat) = "Petrol" THEN "StepOdometer"
                         ELSE "StepTotalPrice"]_vars

\* a vehicle type was picked for a Vehicle category other than Petrol
C22_Witness ==
    \E u \in Users :
       /\ states[u] # NilPtr
       /\ states[u][1].Step = "StepTotalPrice"
       /\ states[u][1].TempExpense[1].CategoryName = "Service"
       /\ states[u][1].TempExpense[1].VehicleType = [String |-> "BIKE", Valid |-> TRUE]
       /\ out.reply = "enter_total_price"

-----------------------------------------------------------------------------
(* Editing, saving and deleting: the dialogs that end with a write          *)

SaveTexts == {"1000", "note", "/skip"}
SavePayloads ==
    {<<"category", "Grocery">>, <<"edit", "1">>, <<"edit", "field", "total">>,
     <<"edit", "field", "notes">>, <<"edit", "save">>, <<"delete", "1">>,
     <<"confirm", "delete">>, <<"edit", "abc">>, <<"delete", "abc">>}
SaveEnvs == {EnvOK, EnvWriteFails}

NextSave ==
    \/ \E u \in Users, text \in SaveTexts, env \in SaveEnvs : HandleMessage(u, u, text, env)
    \/ \E chat \in Users, data \in SavePayloads, env \in SaveEnvs :
          HandleCallback(chat, data, env)

SpecSave == Init /\ [][NextSave]_vars

EditNumericSteps == {"StepEditOdometer", "StepEditPetrolPrice", "StepEditTotalPrice"}

\* the user's session is at one of the given steps
AtStep(u, steps) == states[u] # NilPtr /\ states[u][1].Step \in steps

\* a numeric text at a numeric edit step is stored and Step is EditExpense
EditNumberStored(u, env) ==
    (HandleMessage(u, u, "1000", env) /\ AtStep(u, EditNumericSteps)) =>
       /\ states'[u] # NilPtr
       /\ states'[u][1].Step = "StepEditExpense"
       /\ states'[u][1].TempExpense[1][FieldOf(states[u][1].Step)] = ParseFloat("1000").value

\* a text at the EditNotes step becomes the notes (/skip: no notes) and Step
\* is EditExpense
EditNotesStored(u, text, env) ==
    (HandleMessage(u, u, text, env) /\ AtStep(u, {"StepEditNotes"})) =>
       /\ states'[u] # NilPtr
       /\ states'[u][1].Step = "StepEditExpense"
       /\ states'[u][1].TempExpense[1].Notes = IF text = "/skip" THEN "" ELSE text

\* C23: at EditOdometer, EditPetrolPrice and EditTotalPrice a numeric text,
\* and at EditNotes any text or the message /skip, is stored in the draft
\* (/skip clears the notes) and Step becomes EditExpense.
C23_EditStepsReturn ==
    [][\A u \in Users, env \in SaveEnvs :
          /\ EditNumberStored(u, env)
          /\ \A text \in {"note", "/skip"} : EditNotesStored(u, text, env)]_vars

\* the part of C23 that is not about /skip
C23_WithoutSkip ==
    [][\A u \in Users, env \in SaveEnvs :
          EditNumberStored(u, env) /\ EditNotesStored(u, "note", env)]_vars

\* /skip at the EditNotes step was answered as an unknown command
C23_SkipUnknown ==
    \E u \in Users :
       /\ AtStep(u, {"StepEditNotes"})
       /\ out.actor = u
       /\ out.reply = "unknown_command"

-----------------------------------------------------------------------------
(* /skip at the Notes step                                                 *)

-----------------------------------------------------------------------------
(* Idle sessions and the search step                                       *)

SearchTexts == {"/search", "fuel", "abc"}
SearchEnvs == {EnvOK, EnvNoMatches, EnvSearchFails}

NextSearch ==
    \E u \in Users, text \in SearchTexts, env \in SearchEnvs : HandleMessage(u, u, text, env)

SpecSearch == Init /\ [][NextSearch]_vars

\* a plain text at one of the given steps is answered with the welcome
\* message and Step is Start afterwards
WelcomeAt(steps) ==
    \A u \in Users, text \in {"fuel", "abc"}, env \in SearchEnvs :
       (HandleMessage(u, u, text, env) /\ AtStep(u, steps)) =>
          /\ out'.reply = "welcome"
          /\ states'[u] # NilPtr
          /\ states'[u][1].Step = "StepStart"

\* C25: at the steps Start and None a text that is neither a command nor a
\* menu label is answered with the welcome message, and Step is Start
\* afterwards.
C25_IdleWelcome == [][WelcomeAt({"StepStart", "StepNone"})]_vars

\* the part of C25 about the step Start
C25_AtStart == [][WelcomeAt({"StepStart"})]_vars

\* a plain text at the step None was answered with the fallback text
C25_NoneFallback ==
    \E u \in Users :
       /\ AtStep(u, {"StepNone"})
       /\ out.actor = u
       /\ out.reply = "use_commands_or_buttons"

\* C26: a text sent at the step SearchExpense is answered and Step is None
\* afterwards, whatever the search finds.
C26_SearchLeavesMode ==
    [][\A u \in Users, text \in {"fuel", "abc"}, env \in SearchEnvs :
          (HandleMessage(u, u, text, env) /\ AtStep(u, {"StepSearchExpense"})) =>
             /\ out'.reply \in {"search_results", "no_matches", "error"}
             /\ states'[u] # NilPtr
             /\ states'[u][1].Step = "StepNone"]_vars

\* the part of C26 about a search with matches
C26_WithMatches ==
    [][\A u \in Users, text \in {"fuel", "abc"} :
          (HandleMessage(u, u, text, EnvOK) /\ AtStep(u, {"StepSearchExpense"})) =>
             /\ out'.reply = "search_results"
             /\ states'[u] # NilPtr
             /\ states'[u][1].Step = "StepNone"]_vars

\* a search without matches was answered and the step is still SearchExpense
C26_StillSearching ==
    \E u \in Users :
       /\ AtStep(u, {"StepSearchExpense"})
       /\ out.actor = u
       /\ out.reply = "no_matches"

-----------------------------------------------------------------------------
(* A write that fails                                                      *)

\* the event was answered with an error, nothing was written, and the session
\* of u is stored with the Step and DeleteExpense it had and the given draft
KeptAfterFailure(u, draft) ==
    /\ out'.reply = "error"
    /\ out'.dbop = "none"
    /\ dbExpenses' = dbExpenses
    /\ states'[u] # NilPtr
    /\ states'[u][1].Step = states[u][1].Step
    /\ states'[u][1].DeleteExpense = states[u][1].DeleteExpense
    /\ states'[u][1].TempExpense = draft

\* the draft after the Notes step has written the text, and the sender, in it
DraftWithNotes(u, text) ==
    <<[states[u][1].TempExpense[1] EXCEPT !.Notes = IF text = "/skip" THEN @ ELSE text,
                                          !.UserID = u]>>

\* the session holds a draft, or an expense to delete
HasDraft(u) == states[u] # NilPtr /\ states[u][1].TempExpense # NilPtr
HasDeleteExpense(u) == states[u] # NilPtr /\ states[u][1].DeleteExpense # NilPtr

\* a failing edit_save or confirm_delete leaves the session as it was
CallbackWriteFails(u) ==
    /\ (HandleCallback(u, <<"edit", "save">>, EnvWriteFails) /\ HasDraft(u)) =>
          KeptAfterFailure(u, states[u][1].TempExpense)
    /\ (HandleCallback(u, <<"confirm", "delete">>, EnvWriteFails) /\ HasDeleteExpense(u)
          /\ HasDraft(u)) =>
          KeptAfterFailure(u, states[u][1].TempExpense)

-----------------------------------------------------------------------------
(* Every event gets an answer                                              *)

\* an event handled by Start's loop on its own: the handler has returned
\* after at least one Send, and has not panicked
C28_Answered == [][events' # events => out'.reply \notin {"", "PANIC"}]_vars

\* C28: handling a message or a callback ends without a crash, and with a
\* reply attempted.
C28_EveryEventAnswered ==
    /\ ~crashed
    /\ out.reply # "PANIC"
    /\ (Quiescent /\ events > 0) => out.reply # ""

\* the process has stopped while a message was being handled
C28_CrashInHandler ==
    /\ crashed
    /\ \E t \in Handlers : IsMessage(t) /\ pc[t] # "idle"

-----------------------------------------------------------------------------
(* The metrics under metricsMutex.  A goroutine counts a message           *)
(* (incrementMetric(&messageCount), as handleMessage and the tests do),    *)
(* counts an error and reports it (incrementMetric(&errorCount) followed   *)
(* by sendError or sendMessage, as handleMessage, handleReportCommand and  *)
(* handleDashboardCommand do), or asks for the metrics (GetMetrics).       *)

MetricsCalls == {"count", "fail", "GetMetrics"}
IsMetricsCall(t) == local[t].event.kind \in MetricsCalls

\* the counter a call increments
CounterOf(call) == IF call = "count" THEN "messageCount" ELSE "errorCount"

\* a goroutine makes one of the calls
MetricsCall(t, call) ==
    /\ ~crashed /\ pc[t] = "idle" /\ events < MaxEvents
    /\ events' = events + 1
    /\ batch' = Append(batch, [NoEvent EXCEPT !.kind = call])
    /\ local' = [local EXCEPT ![t] =
                    [NoLocal EXCEPT !.event.kind = call,
                                    !.metric = IF call = "GetMetrics" THEN ""
                                               ELSE CounterOf(call)]]
    /\ Goto(t, IF call = "GetMetrics" THEN "metricsRLock" ELSE "metricLock")
    /\ UNCHANGED <<states, dbUsers, dbExpenses, metrics, tokens, now, out, script, admitted>>
    /\ UNCHANGED <<heap, stateMap, stateMutex, sweep, crashed, base>>

\* incrementMetric: b.metricsMutex.Lock()
MetricLock(t) ==
    /\ ~crashed /\ pc[t] = "metricLock"
    /\ MetricsFree(t)
    /\ Goto(t, "metricLoad")
    /\ UNCHANGED <<seqVars, heap, stateMap, stateMutex, local, sweep, crashed, batch, base>>

\* incrementMetric: *metric++ reads the counter ...
MetricLoad(t) ==
    /\ ~crashed /\ pc[t] = "metricLoad"
    /\ local' = [local EXCEPT ![t].value = metrics[local[t].metric]]
    /\ Goto(t, "metricStore")
    /\ UNCHANGED <<seqVars, heap, stateMap, stateMutex, sweep, crashed, batch, base>>

\* ... and writes it back, one higher; the deferred Unlock
MetricStore(t) ==
    /\ ~crashed /\ pc[t] = "metricStore"
    /\ metrics' = [metrics EXCEPT ![local[t].metric] = local[t].value + 1]
    /\ Goto(t, IF local[t].event.kind = "fail" THEN "sendError" ELSE "idle")
    /\ UNCHANGED <<states, dbUsers, dbExpenses, tokens, now, out, events, script, admitted>>
    /\ UNCHANGED <<heap, stateMap, stateMutex, local, sweep, crashed, batch, base>>

\* the error is reported to the chat: sendError / sendMessage
SendError(t) ==
    /\ ~crashed /\ pc[t] = "sendError"
    /\ Reply(t, "error")
    /\ Goto(t, "idle")
    /\ UNCHANGED <<states, dbUsers, dbExpenses, metrics, tokens, now, events, script, admitted>>
    /\ UNCHANGED <<heap, stateMap, stateMutex, local, sweep, crashed, batch, base>>

\* GetMetrics: b.metricsMutex.RLock()
MetricsRLock(t) ==
    /\ ~crashed /\ pc[t] = "metricsRLock"
    /\ MetricsReadable(t)
    /\ Goto(t, "readMessage")
    /\ UNCHANGED <<seqVars, heap, stateMap, stateMutex, local, sweep, crashed, batch, base>>

\* the counter GetMetrics reads at a statement, and the statement after it
ReadField(label) ==
    CASE label = "readMessage" -> "messageCount"
      [] label = "readCommand" -> "commandCount"
      [] label = "readError"   -> "errorCount"
      [] label = "readActive"  -> "activeUsers"
AfterRead(label) ==
    CASE label = "readMessage" -> "readCommand"
      [] label = "readCommand" -> "readError"
      [] label = "readError"   -> "readActive"
      [] label = "readActive"  -> "metricsReturn"

\* GetMetrics: one entry of the map literal is evaluated
MetricsRead(t) ==
    /\ ~crashed /\ pc[t] \in MetricsReadPcs \ {"metricsReturn"}
    /\ local' = [local EXCEPT ![t].snap[ReadField(pc[t])] = metrics[ReadField(pc[t])]]
    /\ Goto(t, AfterRead(pc[t]))
    /\ UNCHANGED <<seqVars, heap, stateMap, stateMutex, sweep, crashed, batch, base>>

\* GetMetrics: the deferred RUnlock, the map is returned
MetricsReturn(t) ==
    /\ ~crashed /\ pc[t] = "metricsReturn"
    /\ Goto(t, "idle")
    /\ UNCHANGED <<seqVars, heap, stateMap, stateMutex, local, sweep, crashed, batch, base>>

\* one statement of a goroutine that uses the metrics
MetricsStep(t) ==
    \/ \E call \in MetricsCalls : MetricsCall(t, call)
    \/ MetricLock(t) \/ MetricLoad(t) \/ MetricStore(t) \/ SendError(t)
    \/ MetricsRLock(t) \/ MetricsRead(t) \/ MetricsReturn(t)

\* goroutines that count and read the metrics, as in TestBot_GetMetrics
NextMetrics == \E t \in Handlers : MetricsStep(t)

SpecMetrics == Init /\ [][NextMetrics]_vars

\* Start's loop handling events, the sweeper, and a second goroutine that
\* counts errors, reports them and reads the metrics
NextLocks ==
    \/ HandlerStep("h1")
    \/ SweepLock \/ SweepVisit \/ SweepUnlock
    \/ MetricsStep("h2")

SpecLocks == Init /\ [][NextLocks]_vars

-----------------------------------------------------------------------------
(* Claims on the locks and the metrics                                     *)

\* the statements at which a handler calls the storage or Send
CollaboratorPcs ==
    {"dispatch", "apply", "notes", "delete", "setCategory", "setStep", "sendError"}

\* C29: a goroutine that is at a call of the storage or of Send holds neither
\* stateMutex nor metricsMutex.
C29_NoLockAcrossCall ==
    \A t \in Handlers :
       pc[t] \in CollaboratorPcs => ~HoldsLock(t) /\ ~HoldsMetrics(t)

\* Start's loop is looking a category up while the sweeper holds stateMutex and
\* GetMetrics holds metricsMutex
C29_Witness ==
    /\ pc["h1"] = "setCategory"
    /\ stateMutex.writer = Sweeper
    /\ pc["h2"] \in MetricsReadPcs

\* the increments of a counter that have been called, and those of them that
\* have not yet written the counter
Increments(c) ==
    Cardinality({i \in 1..Len(batch) :
                    batch[i].kind \in {"count", "fail"} /\ CounterOf(batch[i].kind) = c})
Pending(c) ==
    Cardinality({t \in Handlers :
                    pc[t] \in {"metricLock", "metricLoad", "metricStore"}
                       /\ local[t].metric = c})

\* the counters GetMetrics has read when it is at a statement
ReadSoFar(label) ==
    CASE label = "readMessage"   -> {}
      [] label = "readCommand"   -> {"messageCount"}
      [] label = "readError"     -> {"messageCount", "commandCount"}
      [] label = "readActive"    -> {"messageCount", "commandCount", "errorCount"}
      [] label = "metricsReturn" -> DOMAIN ZeroMetrics

\* C30: every counter is as many higher as increments of it have completed
\* (none is lost), and what GetMetrics has read is what the counters are at
\* that instant, so that the map it returns is the metrics of one instant.
C30_MetricsExact ==
    /\ \A c \in DOMAIN ZeroMetrics : metrics[c] = Increments(c) - Pending(c)
    /\ \A t \in Handlers :
          pc[t] \in MetricsReadPcs =>
             \A c \in ReadSoFar(pc[t]) : local[t].snap[c] = metrics[c]

\* GetMetrics is about to return a map with one message counted while an
\* increment of the same counter waits for the lock
C30_Witness ==
    /\ pc["h1"] = "metricsReturn"
    /\ local["h1"].snap.messageCount = 1
    /\ pc["h2"] = "metricLock"
    /\ local["h2"].metric = "messageCount"

\* ---------------------------------------------------------------------
\* Shutdown: App.Run waits for a signal, calls App.Stop and cancels its
\* context when it returns; a program that embeds the application calls
\* RunWithContext and Shutdown and cancels its own context, in either
\* order.  The position of that path is pc[Main]; the update loop is the
\* handler "h1", the sweeper's worker is the thread Sweeper.

\* positions of the shutdown path at which the context is cancelled
CtxDonePcs == {"exited", "embedCancelled", "embedDown"}
\* positions of the shutdown path at which App.Stop has returned
StopCalledPcs == {"runStopped", "exited", "embedStopped", "embedDown"}

CtxDone == pc[Main] \in CtxDonePcs
StopCalled == pc[Main] \in StopCalledPcs

\* main has not returned: the goroutines of the process still run
Alive == pc[Main] # "exited"

\* the process-level shutdown path has run
ShutdownRan == CtxDone /\ StopCalled

MainGoto(label) ==
    /\ Goto(Main, label)
    /\ UNCHANGED <<seqVars, heap, stateMap, stateMutex, local, sweep, crashed, batch, base>>

\* App.Stop: stops the health checker, closes the database and syncs the
\* logger; it holds no reference to the ticker and does not touch the bot
AppStop(label) == MainGoto(label)

\* App.Run: the signal arrives and Run calls a.Stop(ctx)
RunStop == pc[Main] = "idle" /\ AppStop("runStopped")

\* App.Run returns: the deferred cancel runs and main returns
RunReturn == pc[Main] = "runStopped" /\ MainGoto("exited")

\* an embedding program calls Shutdown, before or after cancelling
Shutdown ==
    \/ pc[Main] = "idle" /\ AppStop("embedStopped")
    \/ pc[Main] = "embedCancelled" /\ AppStop("embedDown")

\* an embedding program cancels the context given to RunWithContext
CancelCtx ==
    \/ pc[Main] = "idle" /\ MainGoto("embedCancelled")
    \/ pc[Main] = "embedStopped" /\ MainGoto("embedDown")

\* Start's select takes the ctx.Done() branch between two updates
LoopReturn ==
    /\ Alive /\ ~crashed /\ CtxDone /\ pc["h1"] = "idle"
    /\ Goto("h1", "returned")
    /\ UNCHANGED <<seqVars, heap, stateMap, stateMutex, local, sweep, crashed, batch, base>>

\* the update loop handles one more step of an update
LoopStep == Alive /\ HandlerStep("h1")

\* the worker of startCleanupRoutine: it ranges over the ticker's channel,
\* which nothing stops or closes
SweeperStep == Alive /\ (SweepLock \/ SweepVisit \/ SweepUnlock)

NextShutdown ==
    \/ LoopStep
    \/ SweeperStep
    \/ LoopReturn
    \/ RunStop
    \/ RunReturn
    \/ Shutdown
    \/ CancelCtx

\* the scheduler runs every goroutine that can run, and a goroutine that
\* waits for stateMutex gets it: sync.RWMutex does not starve a waiter
SpecShutdown ==
    /\ Init /\ [][NextShutdown]_vars
    /\ SF_vars(LoopStep) /\ WF_vars(SweeperStep) /\ WF_vars(LoopReturn)

\* C31 (first part): once the context is cancelled and App.Stop has been
\* called, the update loop eventually returns (or the process is gone),
\* whatever step the conversation is in.
C31_LoopReturns ==
    ShutdownRan ~> (pc["h1"] = "returned" \/ ~Alive \/ crashed)

\* C31: once the process-level shutdown path has run, the update loop
\* eventually returns and no further sweep executes: the sweeper's worker
\* never again takes the lock to start a sweep.
C31_ShutdownStopsAll ==
    /\ [][(ShutdownRan /\ pc[Sweeper] = "idle") => pc'[Sweeper] = "idle"]_vars
    /\ C31_LoopReturns

\* a sweep is running after the shutdown path has run, with the update
\* loop already returned
C31_SweepAfterShutdown ==
    /\ ShutdownRan /\ Alive
    /\ pc["h1"] = "returned"
    /\ pc[Sweeper] # "idle"

\* ---------------------------------------------------------------------
\* The selection of /edit and /delete, with more rows than the keyboard
\* shows: user 1 owns the first k rows of the table, user 2 the last one.

MaxRows == 12

SelectTexts == {"/edit", "/delete"}
SelectionPayloads == {<<"delete", "1">>, <<"confirm", "delete">>}
\* how many rows user 1 owns: none, one, as many as shown, more than shown
RowCounts == {0, 1, MaxSelection, MaxRows - 1}

InitSelect ==
    /\ states = [c \in Chats |-> NilPtr]
    /\ dbUsers = [c \in Chats |-> IF c \in Users THEN UserRowID(c) ELSE 0]
    /\ \E k \in RowCounts :
          dbExpenses = [i \in 1..MaxRows |->
                          IF i <= k THEN <<Row(i, UserRowID(1), "Petrol", 100000)>>
                          ELSE IF i = MaxRows THEN <<Row(i, UserRowID(2), "Grocery", 9672)>>
                          ELSE NilPtr]
    /\ metrics = ZeroMetrics
    /\ tokens = Burst
    /\ now = 0
    /\ out = NoOut
    /\ events = 0
    /\ script = <<>>
    /\ admitted = 0
    /\ heap = <<>>
    /\ stateMap = [c \in Chats |-> 0]
    /\ stateMutex = [writer |-> "", readers |-> {}]
    /\ pc = [t \in Threads |-> "idle"]
    /\ local = [t \in Handlers |-> NoLocal]
    /\ sweep = [now |-> 0, keys |-> {}]
    /\ crashed = FALSE
    /\ batch = <<>>
    /\ base = [st |-> NilPtr, users |-> dbUsers, exps |-> dbExpenses]

NextSelect ==
    \/ \E from \in Users, chat \in Chats, text \in SelectTexts :
          (chat \in GroupChats \/ chat = from) /\ HandleMessage(from, chat, text, EnvOK)
    \/ \E chat \in Chats, data \in SelectionPayloads : HandleCallback(chat, data, EnvOK)

SpecSelect == InitSelect /\ [][NextSelect]_vars

\* the selection a user's session holds (none without a session)
SelectionOf(st, u) == IF st[u] = NilPtr THEN <<>> ELSE st[u][1].ExpenseSelection

\* the user's rows as storage returns them
FetchedFor(u, users, exps) ==
    GetExpensesByTelegramID([World(u) EXCEPT !.users = users, !.exps = exps],
                            u, ListLimit, 0, EnvOK).expenses

FirstOf(rows, n) == IF Len(rows) > n THEN SubSeq(rows, 1, n) ELSE rows

SelectCommands == {"/edit", "/delete"}

\* the selection after a /edit or /delete is the first min(MaxSelection, n)
\* of the user's n rows
SelectionAfter ==
    \A from \in Users, chat \in Chats, text \in SelectCommands :
       HandleMessage(from, chat, text, EnvOK) =>
          LET rows == FetchedFor(from, dbUsers', dbExpenses')
          IN  SelectionOf(states', from) = FirstOf(rows, MaxSelection)

\* C32: every stored selection holds at most 10 expenses, and
\* after /edit or /delete it is the first min(10, n) of the user's n
\* expenses in storage order, for every n.
C32_SelectionIsFirstTen ==
    /\ [](\A c \in Chats : Len(SelectionOf(states, c)) <= MaxSelection)
    /\ [][SelectionAfter]_vars

\* a user with more than 10 expenses holds a selection of exactly 10, the
\* newest ones
C32_Witness ==
    /\ Len(FetchedFor(1, dbUsers, dbExpenses)) > MaxSelection
    /\ Len(SelectionOf(states, 1)) = MaxSelection
    /\ SelectionOf(states, 1)[1].ID = Len(FetchedFor(1, dbUsers, dbExpenses))

\* ---------------------------------------------------------------------
\* prepareExpenseSelection with its pointers: the rows a fetch returns are
\* objects on the heap, a []*models.Expense is a sequence of their
\* addresses, and the session object holds such a sequence.

\* addresses first..first+n-1
RECURSIVE Addresses(_, _)
Addresses(first, n) == IF n = 0 THEN <<>> ELSE <<first>> \o Addresses(first + 1, n - 1)

\* copy(dst, src) on slices of pointers: the addresses, element by element
CopySlice(src) == [i \in 1..Len(src) |-> src[i]]

\* what the caller of prepareExpenseSelection may write into an expense
MutatedNotes == {"changed"}
MutatedTotals == {1}

\* expenses, err := b.expenseService.GetExpensesByTelegramID(ctx, userID, 100, 0);
\* an empty list returns at once
SelectionFetch(t) ==
    /\ pc[t] = "idle" /\ events < MaxEvents
    /\ events' = events + 1
    /\ LET rows == FetchedFor(ConcUser, dbUsers, dbExpenses)
       IN  /\ heap' = heap \o rows
           /\ local' = [local EXCEPT ![t] =
                          [NoLocal EXCEPT !.list = Addresses(Len(heap) + 1, Len(rows))]]
           /\ Goto(t, IF Len(rows) = 0 THEN "idle" ELSE "selectionStore")
    /\ UNCHANGED <<states, dbUsers, dbExpenses, metrics, tokens, now, out, script, admitted>>
    /\ UNCHANGED <<stateMap, stateMutex, sweep, crashed, batch, base>>

\* the limit, the copy and the store in the session (created when absent);
\* the function returns expensesToShow
SelectionStore(t) ==
    /\ pc[t] = "selectionStore"
    /\ LET expensesToShow == FirstOf(local[t].list, MaxSelection)
           expensesCopy == CopySlice(expensesToShow)
           absent == stateMap[ConcUser] = 0
           state == IF absent THEN Len(heap) + 1 ELSE stateMap[ConcUser]
           h == IF absent THEN Append(heap, NewUserState(now)) ELSE heap
       IN  /\ heap' = [h EXCEPT ![state].ExpenseSelection = expensesCopy]
           /\ stateMap' = [stateMap EXCEPT ![ConcUser] = state]
           /\ local' = [local EXCEPT ![t].list = expensesToShow]
    /\ Goto(t, "selectionReturned")
    /\ UNCHANGED <<seqVars, stateMutex, sweep, crashed, batch, base>>

\* the caller writes a field of an expense of the list it was given
SelectionMutate(t) ==
    /\ pc[t] = "selectionReturned"
    /\ \E i \in 1..Len(local[t].list) :
          \/ \E notes \in MutatedNotes :
                heap' = [heap EXCEPT ![local[t].list[i]].Notes = notes]
          \/ \E total \in MutatedTotals :
                heap' = [heap EXCEPT ![local[t].list[i]].TotalPrice = total]
    /\ Goto(t, "selectionUsed")
    /\ UNCHANGED <<seqVars, stateMap, stateMutex, local, sweep, crashed, batch, base>>

\* the caller builds the keyboard from the list and returns
SelectionDone(t) ==
    /\ pc[t] \in {"selectionReturned", "selectionUsed"}
    /\ local' = [local EXCEPT ![t] = NoLocal]
    /\ Goto(t, "idle")
    /\ UNCHANGED <<seqVars, heap, stateMap, stateMutex, sweep, crashed, batch, base>>

NextSnapshot ==
    \/ SelectionFetch("h1")
    \/ SelectionStore("h1")
    \/ SelectionMutate("h1")
    \/ SelectionDone("h1")

SpecSnapshot == InitSelect /\ [][NextSnapshot]_vars

\* the expenses the session's selection holds, as read through its pointers
SelectionEntries(h, map) ==
    IF map[ConcUser] = 0 THEN <<>>
    ELSE [i \in 1..Len(h[map[ConcUser]].ExpenseSelection) |->
            h[h[map[ConcUser]].ExpenseSelection[i]]]

\* C33: after prepareExpenseSelection has stored the selection, a write to
\* an expense of the fetched or returned list changes no field of any
\* entry of the session's ExpenseSelection.
C33_SelectionIndependent ==
    [][SelectionMutate("h1") =>
         SelectionEntries(heap', stateMap') = SelectionEntries(heap, stateMap)]_vars

\* the session's selection shows the caller's write
C33_SharedEntry ==
    /\ pc["h1"] = "selectionUsed"
    /\ \E i \in 1..Len(SelectionEntries(heap, stateMap)) :
          \/ SelectionEntries(heap, stateMap)[i].Notes \in MutatedNotes
          \/ SelectionEntries(heap, stateMap)[i].TotalPrice \in MutatedTotals

\* ---------------------------------------------------------------------
\* The Step at which the storage writes of the callbacks happen.

\* the Step of the session the callback's chat had before the event
StepBefore(chat) == IF states[chat] = NilPtr THEN "" ELSE states[chat][1].Step

\* the session has a draft that edit_<id> filled from storage
EditInProgress(chat) ==
    /\ states[chat] # NilPtr
    /\ states[chat][1].TempExpense # NilPtr
    /\ states[chat][1].TempExpense[1].ID # 0

\* C34: an UpdateExpense reaches storage only at Step EditExpense with the
\* draft of a preceding edit_<id>, a DeleteExpense only at Step
\* ConfirmDelete; edit_save with no edit in progress answers "No expense to
\* save." without a storage call.
C34_WritesGuardedByStep ==
    [][\A chat \in Chats, data \in DialogPayloads, env \in DialogEnvs :
         HandleCallback(chat, data, env) =>
            /\ out'.dbop = "update" =>
                  StepBefore(chat) = "StepEditExpense" /\ EditInProgress(chat)
            /\ out'.dbop = "delete" => StepBefore(chat) = "StepConfirmDelete"
            /\ (data = <<"edit", "save">> /\ ~EditInProgress(chat)) =>
                  out'.reply = "no_expense_to_save" /\ out'.dbop = "none"]_vars

\* C34 (the writes alone): an UpdateExpense reaches storage only at Step
\* EditExpense, a DeleteExpense only at Step ConfirmDelete.
C34_WriteSteps ==
    [][\A chat \in Chats, data \in DialogPayloads, env \in DialogEnvs :
         HandleCallback(chat, data, env) =>
            /\ out'.dbop = "update" => StepBefore(chat) = "StepEditExpense"
            /\ out'.dbop = "delete" => StepBefore(chat) = "StepConfirmDelete"]_vars

\* ---------------------------------------------------------------------
\* An edit dialog: the user selects an expense with edit_<id> and then
\* presses the buttons of the keyboard the last reply carried, or answers
\* its prompt, or cancels.

MaxDialog == 7

EditFlowPayloads ==
    IF script = <<>> THEN {<<"edit", "1">>, <<"edit", "2">>}
    ELSE IF out.reply \in {"editing_expense", "updated_expense"}
         THEN {<<"edit", "field", "category">>, <<"edit", "field", "total">>,
               <<"edit", "save">>, <<"edit", "cancel">>}
    ELSE IF out.reply = "select_new_category"
         THEN {<<"group", "Vehicle">>, <<"group", "Daily Living">>}
    ELSE IF out.reply = "select_category"
         THEN {<<"category", "Petrol">>, <<"category", "Grocery">>}
    ELSE IF out.reply = "select_vehicle_type" THEN {<<"vehicle", "CAR">>}
    ELSE {}

EditFlowTexts ==
    IF script = <<>> \/ out.reply \in {"operation_cancelled", "edit_cancelled",
                                       "expense_updated", "expense_added"}
    THEN {}
    ELSE IF out.reply \in {"enter_odometer", "enter_petrol_price", "enter_total_price",
                           "enter_new_total_price"}
         THEN {"1000", "/cancel"}
    ELSE IF out.reply = "enter_notes" THEN {"fuel", "/cancel"}
    ELSE {"/cancel"}

EditFlowCallback(u, data) ==
    /\ InConversation(u) /\ Len(script) < MaxDialog
    /\ data \in EditFlowPayloads
    /\ Commit(handleCallbackQuery(World(u), u, data, EnvOK, now))
    /\ script' = Append(script, [from |-> u, data |-> data, text |-> "", fault |-> "none"])
    /\ UNCHANGED admitted

EditFlowMessage(u, text) ==
    /\ InConversation(u) /\ Len(script) < MaxDialog
    /\ text \in EditFlowTexts
    /\ Commit(handleMessage(World(u), u, u, text, EnvOK, now))
    /\ script' = Append(script, [from |-> u, data |-> <<>>, text |-> text, fault |-> "none"])
    /\ UNCHANGED admitted

NextEditFlow ==
    \/ \E u \in Users :
          \E data \in { <<"edit", "1">>, <<"edit", "2">>, <<"edit", "field", "category">>,
                        <<"edit", "field", "total">>, <<"edit", "save">>, <<"edit", "cancel">>,
                        <<"group", "Vehicle">>, <<"group", "Daily Living">>,
                        <<"category", "Petrol">>, <<"category", "Grocery">>,
                        <<"vehicle", "CAR">> } :
             EditFlowCallback(u, data)
    \/ \E u \in Users : \E text \in {"1000", "fuel", "/cancel"} : EditFlowMessage(u, text)

SpecEditFlow == Init /\ [][NextEditFlow]_vars

\* the user of the dialog is editing: edit_<id> loaded an expense and
\* neither edit_save, edit_cancel nor /cancel has ended the dialog
Editing ==
    /\ script # <<>>
    /\ states[script[1].from] # NilPtr
    /\ states[script[1].from][1].TempExpense # NilPtr
    /\ states[script[1].from][1].TempExpense[1].ID # 0

\* C35: from edit_<id> until edit_save, edit_cancel or /cancel no event
\* makes CreateExpense write a record, and a category chosen during the
\* edit changes the draft and returns the session to EditExpense.
C35_EditNeverCreates ==
    [][(Editing /\ events' # events) =>
          /\ out'.dbop # "create"
          /\ out'.route = "category" =>
                /\ states'[script[1].from] # NilPtr
                /\ states'[script[1].from][1].Step = "StepEditExpense"]_vars

\* C35 (the record alone): during an edit no event makes CreateExpense
\* write a record.
C35_NoCreate ==
    [][(Editing /\ events' # events) => out'.dbop # "create"]_vars

\* the notes text of an edit dialog has created a second record
C35_CreatedWhileEditing ==
    /\ script # <<>> /\ script[1].data[1] = "edit"
    /\ out.dbop = "create"
    /\ out.reply = "expense_added"

\* ---------------------------------------------------------------------
\* Conversations in private and in group chats: in a group the sender id
\* of a message is the user's, the chat id of a message and of the message
\* a callback belongs to is the group's.

GroupTexts == {"1000", "/cancel"}
GroupPayloads == {<<"category", "Grocery">>, <<"category", "Petrol">>, <<"vehicle", "CAR">>}

\* the chats a user writes in
ChatsOf(u) == {u} \cup GroupChats

NextGroup ==
    \/ \E from \in Users, chat \in Chats, text \in GroupTexts :
          chat \in ChatsOf(from) /\ HandleMessage(from, chat, text, EnvOK)
    \/ \E chat \in Chats, data \in GroupPayloads : HandleCallback(chat, data, EnvOK)

SpecGroup == Init /\ [][NextGroup]_vars

\* a callback of the chat has put its session at StepTotalPrice
AtTotalPrice(chat) ==
    /\ states[chat] # NilPtr
    /\ states[chat][1].Step = "StepTotalPrice"
    /\ states[chat][1].TempExpense # NilPtr

\* C36: messages and callbacks of one conversation address one session,
\* also when sender id and chat id differ: the Step a callback of the chat
\* has set is the Step the user's next text in that chat is dispatched on
\* (a price at StepTotalPrice is taken and the notes are asked for), and
\* /cancel in that chat removes that session.
C36_SameSession ==
    [][\A from \in Users, chat \in Chats :
         chat \in ChatsOf(from) =>
            /\ (AtTotalPrice(chat) /\ HandleMessage(from, chat, "1000", EnvOK)) =>
                  /\ out'.reply = "enter_notes"
                  /\ states'[chat] # NilPtr /\ states'[chat][1].Step = "StepNotes"
            /\ (states[chat] # NilPtr /\ HandleMessage(from, chat, "/cancel", EnvOK)) =>
                  states'[chat] = NilPtr /\ states'[from] = NilPtr]_vars

\* C36 (private chats): where sender id and chat id are equal the Step a
\* callback has set is the Step the next text is dispatched on.
C36_PrivateChat ==
    [][\A from \in Users :
         /\ (AtTotalPrice(from) /\ HandleMessage(from, from, "1000", EnvOK)) =>
               /\ out'.reply = "enter_notes"
               /\ states'[from][1].Step = "StepNotes"
         /\ (states[from] # NilPtr /\ HandleMessage(from, from, "/cancel", EnvOK)) =>
               states'[from] = NilPtr]_vars

\* in a group the price a user sends after choosing a category is answered
\* from a second session, at StepStart, while the group's session waits
C36_TwoSessions ==
    /\ \E chat \in GroupChats : AtTotalPrice(chat) /\ out.chat = chat
    /\ out.actor \in Users
    /\ states[out.actor] # NilPtr /\ states[out.actor][1].Step = "StepStart"
    /\ out.reply = "welcome"

\* ---------------------------------------------------------------------
\* The vehicle type of the record an add dialog creates.

\* the dialog's vehicle_<type> callback, the second event of a dialog for a
\* category of the Vehicle group
ChosenVehicle ==
    IF Len(script) >= 2 /\ Len(script[2].data) = 2 /\ script[2].data[1] = "vehicle"
    THEN [String |-> script[2].data[2], Valid |-> TRUE]
    ELSE NullString

\* C37: when an add dialog for a category of the Vehicle group completes,
\* the expense written by CreateExpense carries the vehicle type chosen
\* with the dialog's vehicle_<type> callback (CAR or BIKE), not an empty
\* one.
C37_VehicleTypePersisted ==
    (out.dbop = "create" /\ CategoryGroup(out.dbrow.CategoryName) = "Vehicle") =>
       /\ out.dbrow.VehicleType.Valid
       /\ out.dbrow.VehicleType.String \in PickVehicles
       /\ out.dbrow.VehicleType = ChosenVehicle

\* a Petrol dialog in which CAR was chosen has stored a record without a
\* vehicle type
C37_VehicleTypeLost ==
    /\ out.dbop = "create" /\ out.dbrow.CategoryName = "Petrol"
    /\ ChosenVehicle = [String |-> "CAR", Valid |-> TRUE]
    /\ dbExpenses[out.dbid][1].VehicleType = NullString

\* ---------------------------------------------------------------------
\* Two users at once, in their private chats and in a group, with time
\* passing and the sweeper running between the events.

IsolationTexts == {"1000", "/cancel", "/edit"}
IsolationPayloads == {<<"category", "Grocery">>, <<"edit", "1">>, <<"edit", "cancel">>}

NextIsolation ==
    \/ \E from \in Users, chat \in Chats, text \in IsolationTexts :
          chat \in ChatsOf(from) /\ HandleMessage(from, chat, text, EnvOK)
    \/ \E chat \in Chats, data \in IsolationPayloads : HandleCallback(chat, data, EnvOK)
    \/ \E d \in TickSteps : Tick(d)
    \/ Sweep

SpecIsolation == Init /\ [][NextIsolation]_vars

\* C38: handling a message or a callback of one user leaves the session of
\* every other user as it was: stored or not, and with the same Step,
\* TempExpense, DeleteExpense, ExpenseSelection and LastActivity.  (Only the
\* sweeper, which is no event, removes the sessions of several users in one
\* step.)
C38_SessionIsolation ==
    [][events' # events =>
          \A b \in Users \ {out'.actor} : states'[b] = states[b]]_vars

\* user 2 is in a dialog begun earlier, and an event of user 1 handled
\* later has changed user 1's session only
C38_Witness ==
    /\ out.actor = 1 /\ now > 0
    /\ states[1] # NilPtr /\ states[1][1].LastActivity = now
    /\ states[2] # NilPtr /\ states[2][1].Step = "StepTotalPrice"
    /\ states[2][1].LastActivity = 0

\* ---------------------------------------------------------------------
\* The active_users counter against the users that have written: every
\* message is recorded with its sender, sessions end by /cancel and by the
\* sweeper.

ActiveTexts == {"/cancel", "1000"}

ActiveMessage(from, text) ==
    /\ events < MaxEvents
    /\ Commit(handleMessage(World(from), from, from, text, EnvOK, now))
    /\ script' = Append(script, [from |-> from, data |-> <<>>, text |-> text, fault |-> "none"])
    /\ UNCHANGED admitted

NextActive ==
    \/ \E from \in Users, text \in ActiveTexts : ActiveMessage(from, text)
    \/ \E d \in TickSteps : Tick(d)
    \/ Sweep

SpecActive == Init /\ [][NextActive]_vars

\* the users that have sent a message
Senders == {script[i].from : i \in 1..Len(script)}

\* C39: active_users never exceeds the number of distinct users that have
\* sent a message, also when a user's session is deleted (/cancel, the end
\* of a flow, eviction) and created again by the next message.
C39_ActiveUsersBounded == metrics.activeUsers <= Cardinality(Senders)

\* one user has been counted twice: the session was deleted by /cancel and
\* the next message created it again
C39_CountedTwice ==
    /\ Senders = {1}
    /\ metrics.activeUsers = 2
    /\ script[1].text = "/cancel"

\* one user has been counted twice after the sweeper evicted the session
C39_CountedAfterEviction ==
    /\ Senders = {1}
    /\ metrics.activeUsers = 2
    /\ \A i \in 1..Len(script) : script[i].text # "/cancel"

\* two first messages of one user handled at the same time: both handlers
\* found no session, both stored one and both counted the user
C39_CountedConcurrently ==
    /\ events = 2 /\ Len(batch) = 2
    /\ \A i \in 1..2 : batch[i].kind = "message" /\ batch[i].text = "1000"
    /\ \A t \in Handlers : pc[t] # "idle"
    /\ Len(heap) = 2
    /\ metrics.activeUsers = 2

====
